---- MODULE Spec2Model ----
(***************************************************************************)
(* Verification model of the loan-affordability and scoring engine of the  *)
(* Kreditomat backend: app/services/calculator.py, app/services/pdn.py and *)
(* app/services/scoring.py, and of what surrounds it: the offers of an     *)
(* application (app/api/v1/applications.py), the referrals                 *)
(* (app/services/referral.py) and the one-time codes                       *)
(* (app/services/telegram_gateway.py, app/core/redis.py).                  *)
(*                                                                         *)
(* Units.  Loan amounts are whole sums (the binary search of               *)
(* auto_correct_loan_params quantizes to exponent 0, and the inputs drawn  *)
(* here are whole).  Payments, incomes and other obligations are Decimal   *)
(* values with two fractional digits and are held in tiyin (1/100 sum).    *)
(* PDN values are percentages with two fractional digits and are held in   *)
(* hundredths of a percent.  Annual rates are whole percents.              *)
(*                                                                         *)
(* Decimal arithmetic.  The code computes in Python's Decimal with 28      *)
(* significant digits and quantizes the terminal value ROUND_HALF_UP.  The *)
(* model computes the same quotient exactly, on arbitrary-size naturals    *)
(* (Big*, sequences of base-10000 limbs, least significant first), and     *)
(* rounds it half-up once.                                                 *)
(*                                                                         *)
(* Float arithmetic.  The scoring engine computes in Python floats; the    *)
(* model computes each operation exactly on binary fixed-point numbers     *)
(* (the Dbl operators) and rounds it to 53 significant bits, ties to even.  *)
(***************************************************************************)
EXTENDS Integers, Sequences, FiniteSets, TLC

-----------------------------------------------------------------------------
(* Arbitrary-size naturals: the carrier of the Decimal values.             *)

Base == 100 * 100

Max(S) == CHOOSE x \in S : \A y \in S : y <= x

Min(S) == CHOOSE x \in S : \A y \in S : x <= y

\* limb i of a, zero beyond its length
Limb(a, i) == IF i >= 1 /\ i <= Len(a) THEN a[i] ELSE 0

\* drop the zero limbs at the most significant end
BigNorm(a) ==
    LET nz == {i \in 1..Len(a) : a[i] # 0}
    IN  IF nz = {} THEN <<>> ELSE SubSeq(a, 1, Max(nz))

BigFromInt(n) ==
    BigNorm(<<n % Base, (n \div Base) % Base, n \div (Base * Base)>>)

\* a + b: limb sums, then the carries by look-ahead (a carry enters limb i
\* iff some lower limb overflows and every limb in between is Base - 1)
BigAdd(a, b) ==
    LET n == (IF Len(a) > Len(b) THEN Len(a) ELSE Len(b)) + 1
        s == SubSeq([i \in 1..n |-> Limb(a, i) + Limb(b, i)], 1, n)
        c == [i \in 1..n |->
                IF \E j \in 1..(i - 1) :
                      s[j] >= Base /\ \A k \in (j + 1)..(i - 1) : s[k] = Base - 1
                THEN 1 ELSE 0]
    IN  BigNorm(SubSeq([i \in 1..n |-> (s[i] + c[i]) % Base], 1, n))

\* a - b for a >= b: limb differences, then the borrows by look-ahead
BigSub(a, b) ==
    LET n == Len(a)
        d == SubSeq([i \in 1..n |-> a[i] - Limb(b, i)], 1, n)
        c == [i \in 1..n |->
                IF \E j \in 1..(i - 1) :
                      d[j] < 0 /\ \A k \in (j + 1)..(i - 1) : d[k] = 0
                THEN 1 ELSE 0]
    IN  BigNorm(SubSeq([i \in 1..n |-> (d[i] - c[i] + Base) % Base], 1, n))

\* -1, 0, 1 as a < b, a = b, a > b (both normalized)
BigCmp(a, b) ==
    IF Len(a) < Len(b) THEN -1
    ELSE IF Len(a) > Len(b) THEN 1
    ELSE LET df == {i \in 1..Len(a) : a[i] # b[i]}
         IN  IF df = {} THEN 0
             ELSE IF a[Max(df)] < b[Max(df)] THEN -1 ELSE 1

\* a * Base
BigShift(a) == IF a = <<>> THEN <<>> ELSE <<0>> \o a

\* a * k for 0 <= k < Base: the limb products split in low and high halves
BigMulSmall(a, k) ==
    LET n == Len(a)
    IN  BigAdd(SubSeq([i \in 1..n |-> (a[i] * k) % Base], 1, n),
               <<0>> \o SubSeq([i \in 1..n |-> (a[i] * k) \div Base], 1, n))

\* a * Base^h
BigShiftBy(a, h) == IF a = <<>> THEN <<>> ELSE [i \in 1..h |-> 0] \o a

\* a * b, splitting b in halves
RECURSIVE BigMul(_, _)
BigMul(a, b) ==
    IF b = <<>> THEN <<>>
    ELSE IF Len(b) = 1 THEN BigMulSmall(a, b[1])
    ELSE LET h == Len(b) \div 2
         IN  BigAdd(BigMul(a, BigNorm(SubSeq(b, 1, h))),
                    BigShiftBy(BigMul(a, SubSeq(b, h + 1, Len(b))), h))

\* k ^ n for 0 < k < Base, by repeated squaring
RECURSIVE BigPowSmall(_, _)
BigPowSmall(k, n) ==
    IF n = 0 THEN <<1>>
    ELSE IF n % 2 = 1 THEN BigMulSmall(BigPowSmall(k, n - 1), k)
    ELSE LET h == BigPowSmall(k, n \div 2) IN BigMul(h, h)

\* the largest d in lo..hi with b * d <= r
RECURSIVE BigDigit(_, _, _, _)
BigDigit(r, b, lo, hi) ==
    IF lo = hi THEN lo
    ELSE LET m == (lo + hi + 1) \div 2
         IN  IF BigCmp(BigMulSmall(b, m), r) <= 0
             THEN BigDigit(r, b, m, hi)
             ELSE BigDigit(r, b, lo, m - 1)

\* schoolbook long division: the quotient limbs i..1 of a by b, given the
\* remainder rem left by the limbs above i
RECURSIVE BigDivAt(_, _, _, _)
BigDivAt(a, b, i, rem) ==
    IF i = 0 THEN <<>>
    ELSE LET cur == BigNorm(<<a[i]>> \o rem)
             d   == IF BigCmp(cur, b) < 0 THEN 0
                    ELSE BigDigit(cur, b, 1, Base - 1)
             nxt == IF d = 0 THEN cur ELSE BigSub(cur, BigMulSmall(b, d))
         IN  BigDivAt(a, b, i - 1, nxt) \o <<d>>

\* floor(a / b) for b > 0
BigDiv(a, b) ==
    IF BigCmp(a, b) < 0 THEN <<>>
    ELSE LET m == Len(a)
             n == Len(b)
         IN  BigNorm(BigDivAt(a, b, m - n + 1, SubSeq(a, m - n + 2, m)))

\* the quantization with ROUND_DOWN in place of ROUND_HALF_UP
BigRoundDown(num, den) == BigDiv(num, den)

\* num / den quantized to exponent 0 with ROUND_HALF_UP (num >= 0, den > 0)
BigRoundHalfUp(num, den) ==
    BigDiv(BigAdd(BigMulSmall(num, 2), den), BigMulSmall(den, 2))

\* the value of a Big below Base^3, as an integer
BigToInt(a) == Limb(a, 1) + Base * Limb(a, 2) + Base * Base * Limb(a, 3)

BigLe(a, b) == BigCmp(a, b) <= 0
BigLt(a, b) == BigCmp(a, b) < 0

-----------------------------------------------------------------------------
(* Binary floating point: the carrier of the Python floats of              *)
(* app/services/scoring.py.  A Dbl is a non-negative IEEE-754 double held  *)
(* exactly, as DblLimbs limbs of base 2^13, least significant first, in    *)
(* units of 2^-65 (the five low limbs are the fraction).  Every operation  *)
(* computes the exact result and rounds it to 53 significant bits, ties to *)
(* even, as the hardware does.  The values of the scoring engine lie       *)
(* between 2^-10 and 2^25, which this format holds without loss.           *)

DblBase == 2 ^ 13
DblLimbs == 3 + 4
DblFraction == 2 + 3

\* the limbs of the number whose limb i is f[i] plus the carry from below
RECURSIVE DblCarry(_, _, _)
DblCarry(f, i, carry) ==
    IF i > DblLimbs THEN <<>>
    ELSE <<(f[i] + carry) % DblBase>>
         \o DblCarry(f, i + 1, (f[i] + carry) \div DblBase)

DblZero == [i \in 1..DblLimbs |-> 0]

\* an integer 0 <= n < 2^26, which a double holds exactly
DblFromInt(n) ==
    [i \in 1..DblLimbs |->
        IF i = DblFraction + 1 THEN n % DblBase
        ELSE IF i = DblFraction + 2 THEN n \div DblBase
        ELSE 0]

\* int(x): the integer part
DblToInt(a) == a[DblFraction + 1] + DblBase * a[DblFraction + 2]

\* the number of significant bits: the position of the highest set bit
DblBitLen(a) ==
    LET nz == {i \in 1..DblLimbs : a[i] # 0}
    IN  IF nz = {} THEN 0
        ELSE LET top == Max(nz)
             IN  13 * (top - 1)
                 + (CHOOSE b \in 1..13 : 2 ^ (b - 1) <= a[top] /\ a[top] < 2 ^ b)

\* bit pos of a (bit 0 is the lowest)
DblBit(a, pos) == (a[(pos \div 13) + 1] \div (2 ^ (pos % 13))) % 2

\* every bit of a below pos is zero
DblLowZero(a, pos) ==
    /\ \A i \in 1..(pos \div 13) : a[i] = 0
    /\ a[(pos \div 13) + 1] % (2 ^ (pos % 13)) = 0

\* round to 53 significant bits, ties to even; inexact says that the exact
\* value lies strictly above a (a division left a remainder)
DblRound(a, inexact) ==
    LET s == DblBitLen(a) - 53
    IN  IF s <= 0 THEN a
        ELSE LET w == s \div 13
                 b == s % 13
                 truncated == [i \in 1..DblLimbs |->
                                  IF i <= w THEN 0
                                  ELSE IF i = w + 1
                                  THEN a[i] - (a[i] % (2 ^ b))
                                  ELSE a[i]]
                 up == /\ DblBit(a, s - 1) = 1
                       /\ \/ inexact
                          \/ ~DblLowZero(a, s - 1)
                          \/ DblBit(a, s) = 1
             IN  IF up
                 THEN DblCarry([i \in 1..DblLimbs |->
                                   truncated[i]
                                   + (IF i = w + 1 THEN 2 ^ b ELSE 0)], 1, 0)
                 ELSE truncated

\* a + b
DblAdd(a, b) ==
    DblRound(DblCarry([i \in 1..DblLimbs |-> a[i] + b[i]], 1, 0), FALSE)

\* a * k for an integer 0 <= k < 2^17
DblMulInt(a, k) ==
    DblRound(DblCarry([i \in 1..DblLimbs |-> a[i] * k], 1, 0), FALSE)

\* long division by an integer 0 < k < 2^17, from the top limb down: the
\* quotient limbs i..1 and then the remainder
RECURSIVE DblDivAt(_, _, _, _)
DblDivAt(a, k, i, rem) ==
    IF i = 0 THEN <<rem>>
    ELSE LET cur == rem * DblBase + a[i]
         IN  DblDivAt(a, k, i - 1, cur % k) \o <<cur \div k>>

\* a / k for an integer 0 < k < 2^17
DblDivInt(a, k) ==
    LET d == DblDivAt(a, k, DblLimbs, 0)
    IN  DblRound([i \in 1..DblLimbs |-> d[i + 1]], d[1] # 0)

\* the float literal n/d, e.g. 0.15 as DblLiteral(15, 100)
DblLiteral(n, d) == DblDivInt(DblFromInt(n), d)

-----------------------------------------------------------------------------
(* app/core/config.py: system limits.                                      *)

MAX_LOAN_AMOUNT == 100000000
MIN_LOAN_AMOUNT == 1
MAX_LOAN_TERM_MONTHS == 36
MIN_LOAN_TERM_MONTHS == 1

-----------------------------------------------------------------------------
(* app/services/calculator.py                                              *)

RECURSIVE GCD(_, _)
GCD(a, b) == IF b = 0 THEN a ELSE GCD(b, a % b)

\* monthly_rate = (annual_rate / 100) / 12, as the fraction num/den in
\* lowest terms
monthly_rate(annual_rate) ==
    LET g == GCD(annual_rate, 1200)
    IN  [num |-> annual_rate \div g, den |-> 1200 \div g]

\* the two guards that open calculate_monthly_payment
monthly_payment_raises(amount, months) == months <= 0 \/ amount <= 0

\* calculate_monthly_payment: the payment in tiyin (a Big), for amount > 0
\* whole sums, months > 0 and annual_rate > -1200.  Nothing in the function
\* looks at the sign of the rate: at a negative rate both monthly_rate *
\* rate_power and rate_power - 1 are negative and their quotient positive.
calculate_monthly_payment(amount, annual_rate, months) ==
    LET r == monthly_rate(annual_rate)
    IN  IF r.num = 0
        THEN BigRoundHalfUp(BigMulSmall(BigFromInt(amount), 100),
                            BigFromInt(months))
        ELSE LET rate_power == BigPowSmall(r.num + r.den, months)
                 den_power  == BigPowSmall(r.den, months)
                 \* amount * (monthly_rate * rate_power) / (rate_power - 1)
                 num == BigMul(BigMulSmall(rate_power,
                                           IF r.num > 0 THEN r.num
                                           ELSE 0 - r.num),
                               BigMulSmall(BigFromInt(amount), 100))
                 den == BigMulSmall(IF r.num > 0
                                    THEN BigSub(rate_power, den_power)
                                    ELSE BigSub(den_power, rate_power),
                                    r.den)
             IN  BigRoundHalfUp(num, den)

\* calculate_total_cost: monthly_payment * months (already at two digits)
calculate_total_cost(monthly_payment, months) ==
    BigMulSmall(monthly_payment, months)

\* validate_loan_params without its upper limits
validate_loan_params_lower_only(amount, months) ==
    (IF amount < MIN_LOAN_AMOUNT THEN <<"min_amount">> ELSE <<>>)
    \o
    (IF months < MIN_LOAN_TERM_MONTHS THEN <<"min_term">> ELSE <<>>)

\* validate_loan_params: the sequence of errors; valid iff it is empty
validate_loan_params(amount, months) ==
    (IF amount < MIN_LOAN_AMOUNT THEN <<"min_amount">>
     ELSE IF amount > MAX_LOAN_AMOUNT THEN <<"max_amount">>
     ELSE <<>>)
    \o
    (IF months < MIN_LOAN_TERM_MONTHS THEN <<"min_term">>
     ELSE IF months > MAX_LOAN_TERM_MONTHS THEN <<"max_term">>
     ELSE <<>>)

\* a Decimal that may be negative: its sign and its magnitude (a Big);
\* zero is never negative
Signed(neg, mag) == [neg |-> neg /\ mag # <<>>, mag |-> mag]

\* a - b as a Signed
SignedDiff(a, b) ==
    IF BigLe(b, a) THEN Signed(FALSE, BigSub(a, b))
    ELSE Signed(TRUE, BigSub(b, a))

\* (x.mag / den) quantized ROUND_HALF_UP, which rounds a tie away from zero
SignedRoundHalfUp(x, num_factor, den) ==
    Signed(x.neg, BigRoundHalfUp(BigMul(x.mag, num_factor), den))

\* calculate_overpayment: total_cost - amount, in tiyin
calculate_overpayment(amount, total_cost) ==
    SignedDiff(total_cost, BigMulSmall(BigFromInt(amount), 100))

\* calculate_effective_rate for months > 0 and amount > 0:
\* total_interest / amount / (months / 12) * 100, in hundredths of a percent
calculate_effective_rate(amount, total_cost, months) ==
    SignedRoundHalfUp(calculate_overpayment(amount, total_cost),
                      BigFromInt(1200),
                      BigMulSmall(BigFromInt(amount), months))

\* (overpayment / amount * 100) quantized to 0.01, in hundredths of a percent
overpayment_percentage(amount, overpayment) ==
    SignedRoundHalfUp(overpayment, BigFromInt(100), BigFromInt(amount))

\* (annual_rate / 365) quantized to 0.0001, in 1/10000 of a percent
daily_rate(annual_rate) ==
    SignedRoundHalfUp(
        Signed(annual_rate < 0,
               BigFromInt(IF annual_rate < 0 THEN 0 - annual_rate
                          ELSE annual_rate)),
        BigFromInt(10000), BigFromInt(365))

\* calculate_loan_details: ValueError on invalid parameters (and from the
\* guards of calculate_monthly_payment and calculate_total_cost), else the
\* calculation of the amount and term as given
calculate_loan_details(amount, annual_rate, months) ==
    IF validate_loan_params(amount, months) # <<>>
    THEN [status |-> "InvalidLoanParameters"]
    ELSE IF monthly_payment_raises(amount, months)
    THEN [status |-> "ValueError"]
    ELSE LET payment == calculate_monthly_payment(amount, annual_rate, months)
             total_cost == calculate_total_cost(payment, months)
             overpayment == calculate_overpayment(amount, total_cost)
         IN  IF payment = <<>>
             THEN [status |-> "ValueError"]
             ELSE [status          |-> "ok",
                   amount          |-> amount,
                   annual_rate     |-> annual_rate,
                   months          |-> months,
                   monthly_payment |-> payment,
                   total_cost      |-> total_cost,
                   overpayment     |-> overpayment,
                   overpayment_percentage |->
                       overpayment_percentage(amount, overpayment),
                   effective_rate  |->
                       calculate_effective_rate(amount, total_cost, months),
                   daily_rate      |-> daily_rate(annual_rate)]

-----------------------------------------------------------------------------
(* app/services/pdn.py                                                     *)

\* calculate_pdn with the other payments subtracted instead of added
calculate_pdn_minus_other(monthly_payment, monthly_income, other_monthly_payments) ==
    LET other == BigFromInt(other_monthly_payments)
    IN  BigRoundHalfUp(
            BigShift(IF BigLe(other, monthly_payment)
                     THEN BigSub(monthly_payment, other)
                     ELSE BigSub(other, monthly_payment)),
            BigFromInt(monthly_income))

\* calculate_pdn on a positive income: ((payment + other) / income * 100)
\* quantized to 0.01 ROUND_HALF_UP, in hundredths of a percent (a Big).
\* Payments and income are in tiyin.
calculate_pdn(monthly_payment, monthly_income, other_monthly_payments) ==
    BigRoundHalfUp(
        BigShift(BigAdd(monthly_payment, BigFromInt(other_monthly_payments))),
        BigFromInt(monthly_income))

\* get_pdn_risk_level with <= in place of < at every threshold
get_pdn_risk_level_inclusive(pdn) ==
    IF BigLe(pdn, BigFromInt(3000)) THEN "low"
    ELSE IF BigLe(pdn, BigFromInt(5000)) THEN "medium"
    ELSE IF BigLe(pdn, BigFromInt(6500)) THEN "high"
    ELSE "critical"

\* get_pdn_risk_level on a PDN in hundredths of a percent
get_pdn_risk_level(pdn) ==
    IF BigLt(pdn, BigFromInt(3000)) THEN "low"
    ELSE IF BigLt(pdn, BigFromInt(5000)) THEN "medium"
    ELSE IF BigLt(pdn, BigFromInt(6500)) THEN "high"
    ELSE "critical"


\* x.quantize(Decimal('100000'), rounding=ROUND_HALF_UP) for x = num / den:
\* the exponent of Decimal('100000') is 0, so the value is rounded half-up
\* to a whole number of sums
quantize_100000(num, den) == (2 * num + den) \div (2 * den)

\* the ceiling test with < 0 in place of <= 0
max_monthly_payment_negative(monthly_income, other_monthly_payments, target_pdn) ==
    BigLt(BigMulSmall(BigFromInt(monthly_income), target_pdn),
          BigShift(BigFromInt(other_monthly_payments)))

\* max_monthly_payment = monthly_income * target_pdn / 100 - other <= 0
\* (income and other in tiyin, target in hundredths of a percent)
max_monthly_payment_nonpositive(monthly_income, other_monthly_payments, target_pdn) ==
    BigLe(BigMulSmall(BigFromInt(monthly_income), target_pdn),
          BigShift(BigFromInt(other_monthly_payments)))

\* the loop condition searching until the interval is empty
search_continues_until_empty(lo, hi) == hi - lo > 0

\* the loop condition with a precision band of 1,000,000
search_continues_coarse(lo, hi) == hi - lo > 1000000

\* the binary search's loop condition, pdn.py line 156
search_continues(lo, hi) == hi - lo > 100000

\* the acceptance test with < in place of <=
pdn_acceptable_strict(pdn, target_pdn) == BigLt(pdn, BigFromInt(target_pdn))

\* the test "current_pdn <= target_pdn" of lines 110, 134 and 164
\* (pdn a Big, target in hundredths of a percent)
pdn_acceptable(pdn, target_pdn) == BigLe(pdn, BigFromInt(target_pdn))

\* the step-1 test with <= in place of <
term_extension_applies_at_36(months) == months <= 36

\* the test "months < 36" that opens step 1, line 122
term_extension_applies(months) == months < 36

\* 125% of the requested amount in place of 75%
reduced_amount_raised(amount) ==
    LET quantized == quantize_100000(5 * amount, 4)
    IN  IF quantized > MIN_LOAN_AMOUNT THEN quantized ELSE MIN_LOAN_AMOUNT

\* analyze_pdn_scenario, lines 283-285: 75% of the requested amount,
\* quantized and raised to the system minimum
reduced_amount(amount) ==
    LET quantized == quantize_100000(3 * amount, 4)
    IN  IF quantized > MIN_LOAN_AMOUNT THEN quantized ELSE MIN_LOAN_AMOUNT

\* max_monthly_payment = monthly_income * target_pdn / 100 - other, in
\* millionths of a sum (income and other in tiyin, target in hundredths of a
\* percent); only used when it is positive
max_monthly_payment(monthly_income, other_monthly_payments, target_pdn) ==
    BigSub(BigMulSmall(BigFromInt(monthly_income), target_pdn),
           BigShift(BigFromInt(other_monthly_payments)))

\* the clamp without its upper limit
clamp_to_minimum_only(max_amount) ==
    IF BigLt(max_amount, BigFromInt(MIN_LOAN_AMOUNT)) THEN MIN_LOAN_AMOUNT
    ELSE BigToInt(max_amount)

\* min(max_amount, settings.MAX_LOAN_AMOUNT) then max(.., MIN_LOAN_AMOUNT),
\* for a Big
clamp_to_limits(max_amount) ==
    IF BigLt(BigFromInt(MAX_LOAN_AMOUNT), max_amount) THEN MAX_LOAN_AMOUNT
    ELSE IF BigLt(max_amount, BigFromInt(MIN_LOAN_AMOUNT)) THEN MIN_LOAN_AMOUNT
    ELSE BigToInt(max_amount)

\* calculate_max_loan_amount, for annual_rate > -1200: 0 when the ceiling is
\* not positive; else the principal the ceiling pays for,
\* P = PMT * (rate_power - 1) / (monthly_rate * rate_power) (PMT * months at
\* a zero rate), quantized ROUND_HALF_UP to a whole sum and brought within
\* the system limits.  A term of zero or less gives a principal of zero or
\* less, which the lower limit replaces.
calculate_max_loan_amount(annual_rate, months, monthly_income, other_monthly_payments, target_pdn) ==
    IF max_monthly_payment_nonpositive(monthly_income, other_monthly_payments,
                                       target_pdn)
    THEN 0
    ELSE IF months <= 0 THEN MIN_LOAN_AMOUNT
    ELSE LET pmt == max_monthly_payment(monthly_income,
                                        other_monthly_payments, target_pdn)
             million == BigFromInt(1000000)
             r == monthly_rate(annual_rate)
         IN  IF r.num = 0
             THEN clamp_to_limits(
                      BigRoundHalfUp(BigMulSmall(pmt, months), million))
             ELSE LET rate_power == BigPowSmall(r.num + r.den, months)
                      den_power  == BigPowSmall(r.den, months)
                      num == BigMul(BigMulSmall(pmt, r.den),
                                    IF r.num > 0
                                    THEN BigSub(rate_power, den_power)
                                    ELSE BigSub(den_power, rate_power))
                      den == BigMul(BigMulSmall(rate_power,
                                                IF r.num > 0 THEN r.num
                                                ELSE 0 - r.num),
                                    million)
                  IN  clamp_to_limits(BigRoundHalfUp(num, den))

\* the recommendations analyze_pdn_scenario gives for a risk level
pdn_recommendations(risk_level) ==
    IF risk_level = "low" THEN <<"safe_zone", "may_borrow_more">>
    ELSE IF risk_level = "medium" THEN <<"acceptable", "do_not_increase">>
    ELSE IF risk_level = "high"
    THEN <<"near_critical", "reduce_or_extend", "avoid_more_credit">>
    ELSE <<"above_safe", "reduce_amount", "consider_declining">>

\* one entry of analyze_pdn_scenario's alternatives
pdn_alternative(description, amount, annual_rate, months, monthly_income, other_monthly_payments) ==
    LET alt_payment == calculate_monthly_payment(amount, annual_rate, months)
        alt_pdn == calculate_pdn(alt_payment, monthly_income,
                                 other_monthly_payments)
    IN  [description     |-> description,
         amount          |-> amount,
         months          |-> months,
         monthly_payment |-> alt_payment,
         pdn             |-> alt_pdn,
         risk_level      |-> get_pdn_risk_level(alt_pdn)]

\* analyze_pdn_scenario: nothing is validated; calculate_monthly_payment
\* raises on a term or amount of zero or less, calculate_pdn on an income of
\* zero or less; the target PDN of the maximum amount is the default 50
analyze_pdn_scenario(amount, annual_rate, months, monthly_income, other_monthly_payments) ==
    IF monthly_payment_raises(amount, months)
    THEN [status |-> "ValueError"]
    ELSE IF monthly_income <= 0
    THEN [status |-> "InvalidIncome"]
    ELSE LET payment == calculate_monthly_payment(amount, annual_rate, months)
             pdn == calculate_pdn(payment, monthly_income,
                                  other_monthly_payments)
             risk_level == get_pdn_risk_level(pdn)
             free_income == SignedDiff(BigFromInt(monthly_income),
                                       BigFromInt(other_monthly_payments))
         IN  [status |-> "ok",
              current_scenario |->
                  [amount |-> amount, months |-> months,
                   monthly_payment |-> payment, pdn |-> pdn,
                   risk_level |-> risk_level],
              income_analysis |->
                  [monthly_income |-> monthly_income,
                   other_payments |-> other_monthly_payments,
                   free_income |-> free_income,
                   free_income_percentage |->
                       SignedRoundHalfUp(free_income, BigFromInt(10000),
                                         BigFromInt(monthly_income))],
              max_affordable_amount |->
                  calculate_max_loan_amount(annual_rate, months,
                                            monthly_income,
                                            other_monthly_payments, 5000),
              alternatives |->
                  (IF months < 36
                   THEN <<pdn_alternative("extend_term", amount, annual_rate,
                                          36, monthly_income,
                                          other_monthly_payments)>>
                   ELSE <<>>)
                  \o
                  (IF amount > MIN_LOAN_AMOUNT
                   THEN <<pdn_alternative("reduce_amount",
                                          reduced_amount(amount), annual_rate,
                                          months, monthly_income,
                                          other_monthly_payments)>>
                   ELSE <<>>),
              recommendations |-> pdn_recommendations(risk_level)]

\* the dictionary auto_correct_loan_params returns
correction_result(amount, months, payment, pdn, corrected, corrections) ==
    [status          |-> "ok",
     amount          |-> amount,
     months          |-> months,
     monthly_payment |-> payment,
     pdn             |-> pdn,
     risk_level      |-> get_pdn_risk_level(pdn),
     corrected       |-> corrected,
     corrections     |-> corrections]

-----------------------------------------------------------------------------
(* app/models/personal_data.py: the enumerations the scoring engine reads, *)
(* each as the function from the names of its members to their values.    *)

Gender ==
    ("MALE" :> "male")
    @@ ("FEMALE" :> "female")

MaritalStatus ==
    ("SINGLE" :> "single")
    @@ ("MARRIED" :> "married")
    @@ ("DIVORCED" :> "divorced")
    @@ ("WIDOWED" :> "widowed")

EducationLevel ==
    ("BASIC" :> "basic")
    @@ ("SECONDARY" :> "secondary")
    @@ ("HIGHER" :> "higher")

EmploymentType ==
    ("EMPLOYED" :> "employed")
    @@ ("SELF_EMPLOYED" :> "self_employed")
    @@ ("UNEMPLOYED" :> "unemployed")
    @@ ("RETIRED" :> "retired")
    @@ ("STUDENT" :> "student")

IncomeSource ==
    ("SALARY" :> "salary")
    @@ ("BUSINESS" :> "business")
    @@ ("PENSION" :> "pension")
    @@ ("RENTAL" :> "rental")
    @@ ("OTHER" :> "other")

LivingArrangement ==
    ("ALONE" :> "alone")
    @@ ("WITH_SPOUSE" :> "with_spouse")
    @@ ("WITH_PARENTS" :> "with_parents")
    @@ ("WITH_CHILDREN" :> "with_children")
    @@ ("WITH_ROOMMATES" :> "with_roommates")

-----------------------------------------------------------------------------
(* app/services/scoring.py                                                 *)
(*                                                                         *)
(* A dict is a function whose domain is the set of its keys; None and the  *)
(* empty dict, which the code does not tell apart ("if loan_history:"),    *)
(* are the empty function.  A date is a record of year, month and day.     *)
(* The per-factor functions return their "score"; the "reason" texts and   *)
(* the "details" copies of the factors are left out, and so is the         *)
(* summary's round(total_weighted_score, 2).                               *)

EmptyDict == [k \in {} |-> 0]

\* d.get(key, default)
Get(d, key, default) == IF key \in DOMAIN d THEN d[key] ELSE default

\* relativedelta(today, birth_date).years for a birth date not after today
relativedelta_years(today, birth_date) ==
    today.year - birth_date.year
    - (IF \/ today.month < birth_date.month
          \/ today.month = birth_date.month /\ today.day < birth_date.day
       THEN 1 ELSE 0)

calculate_age_score(today, birth_date) ==
    LET age == relativedelta_years(today, birth_date)
    IN  IF age < 18 THEN 0
        ELSE IF age <= 21 THEN 50
        ELSE IF age <= 25 THEN 80
        ELSE IF age <= 35 THEN 100
        ELSE IF age <= 45 THEN 90
        ELSE IF age <= 55 THEN 80
        ELSE IF age <= 65 THEN 60
        ELSE 40

calculate_gender_score(gender) == IF gender = Gender["FEMALE"] THEN 60 ELSE 50

calculate_marital_status_score(status) ==
    IF status = MaritalStatus["MARRIED"] THEN 80
    ELSE IF status = MaritalStatus["SINGLE"] THEN 60
    ELSE IF status = MaritalStatus["DIVORCED"] THEN 50
    ELSE IF status = MaritalStatus["WIDOWED"] THEN 55
    ELSE 60

calculate_education_score(education) ==
    IF education = EducationLevel["HIGHER"] THEN 90
    ELSE IF education = EducationLevel["SECONDARY"] THEN 60
    ELSE IF education = EducationLevel["BASIC"] THEN 40
    ELSE 50

calculate_employment_score(employment_type, employment_duration_months) ==
    LET base_score ==
            IF employment_type = EmploymentType["EMPLOYED"] THEN 100
            ELSE IF employment_type = EmploymentType["SELF_EMPLOYED"] THEN 65
            ELSE IF employment_type = EmploymentType["UNEMPLOYED"] THEN 20
            ELSE IF employment_type = EmploymentType["RETIRED"] THEN 50
            ELSE IF employment_type = EmploymentType["STUDENT"] THEN 30
            ELSE 50
        duration_bonus ==
            IF employment_duration_months < 6 THEN 0 - 20
            ELSE IF employment_duration_months < 12 THEN 0
            ELSE IF employment_duration_months < 36 THEN 10
            ELSE 20
    IN  Max({0, base_score + duration_bonus})

\* source_modifiers.get(income_source, 0.7), a float
source_modifier(income_source) ==
    IF income_source = IncomeSource["SALARY"] THEN DblFromInt(1)
    ELSE IF income_source = IncomeSource["BUSINESS"] THEN DblLiteral(9, 10)
    ELSE IF income_source = IncomeSource["PENSION"] THEN DblLiteral(8, 10)
    ELSE IF income_source = IncomeSource["OTHER"] THEN DblLiteral(7, 10)
    ELSE DblLiteral(7, 10)

\* monthly_income in whole sums
calculate_income_score(monthly_income, income_source) ==
    LET base_score ==
            IF monthly_income < 500000 THEN 30
            ELSE IF monthly_income < 1000000 THEN 50
            ELSE IF monthly_income < 2000000 THEN 70
            ELSE IF monthly_income < 5000000 THEN 90
            ELSE 100
    IN  DblToInt(DblMulInt(source_modifier(income_source), base_score))

\* Building the table of scores looks up the members OWN, FAMILY, RENT and
\* OTHER of LivingArrangement before the argument is read; a member the
\* enumeration does not have raises AttributeError.
calculate_living_score(living) ==
    IF ~({"OWN", "FAMILY", "RENT", "OTHER"} \subseteq DOMAIN LivingArrangement)
    THEN [status |-> "AttributeError"]
    ELSE [status |-> "ok",
          score |-> IF living = LivingArrangement["OWN"] THEN 80
                    ELSE IF living = LivingArrangement["FAMILY"] THEN 70
                    ELSE IF living = LivingArrangement["RENT"] THEN 50
                    ELSE IF living = LivingArrangement["OTHER"] THEN 40
                    ELSE 50]

calculate_pdn_score(pdn_risk_level) ==
    IF pdn_risk_level = "low" THEN 100
    ELSE IF pdn_risk_level = "medium" THEN 70
    ELSE IF pdn_risk_level = "high" THEN 40
    ELSE IF pdn_risk_level = "critical" THEN 10
    ELSE 50

calculate_loan_history_score(total_loans, active_loans, overdue_loans) ==
    IF total_loans = 0 THEN 60
    ELSE LET base_score == IF total_loans <= 3 THEN 80
                           ELSE IF total_loans <= 6 THEN 70
                           ELSE 50
             overdue_penalty == overdue_loans * 30
             active_penalty == Max({0, (active_loans - 2) * 10})
         IN  Max({10, base_score - overdue_penalty - active_penalty})

\* The words the engine looks for that occur in text.lower(), for the
\* device types and regions drawn below.  A word or text in Cyrillic is
\* written in Latin letters after "cyr:".
words_in_lower(text) ==
    IF text = "Android" THEN {"android"}
    ELSE IF text = "Tashkent" THEN {"tashkent"}
    ELSE IF text = "cyr:Samarkand" THEN {"cyr:samarkand"}
    ELSE {}

calculate_device_score(device_type) ==
    LET device_type_lower == words_in_lower(device_type)
    IN  IF {"ios", "iphone", "ipad"} \cap device_type_lower # {} THEN 80
        ELSE IF "android" \in device_type_lower THEN 60
        ELSE IF {"windows", "mac", "desktop"} \cap device_type_lower # {}
        THEN 70
        ELSE 50

calculate_region_score(region) ==
    LET region_lower == words_in_lower(region)
        cities == {"cyr:samarkand", "cyr:buhara", "cyr:namangan", "cyr:andizhan", "cyr:fergana"}
    IN  IF {"cyr:tashkent", "tashkent"} \cap region_lower # {} THEN 80
        ELSE IF cities \cap region_lower # {} THEN 60
        ELSE 50

\* a PDN section that carries no weight
factor_weight_without_pdn(factor) ==
    IF factor = "age" THEN 15
    ELSE IF factor = "gender" THEN 5
    ELSE IF factor = "marital_status" THEN 5
    ELSE IF factor = "education" THEN 10
    ELSE IF factor = "employment" THEN 20
    ELSE IF factor = "income" THEN 20
    ELSE IF factor = "living_arrangement" THEN 5
    ELSE IF factor = "loan_history" THEN 10
    ELSE IF factor = "device_type" THEN 3
    ELSE IF factor = "region" THEN 2
    ELSE 0

\* the "weight" a section of calculate_total_score writes into its factor
\* and adds to total_weight
factor_weight(factor) ==
    IF factor = "age" THEN 15
    ELSE IF factor = "gender" THEN 5
    ELSE IF factor = "marital_status" THEN 5
    ELSE IF factor = "education" THEN 10
    ELSE IF factor = "employment" THEN 20
    ELSE IF factor = "income" THEN 20
    ELSE IF factor = "living_arrangement" THEN 5
    ELSE IF factor = "pdn" THEN 15
    ELSE IF factor = "loan_history" THEN 10
    ELSE IF factor = "device_type" THEN 3
    ELSE IF factor = "region" THEN 2
    ELSE 0

\* the education section multiplying by the literal of the age section
factor_multiplier_education_as_age(factor) ==
    IF factor = "age" THEN DblLiteral(15, 100)
    ELSE IF factor = "gender" THEN DblLiteral(5, 100)
    ELSE IF factor = "marital_status" THEN DblLiteral(5, 100)
    ELSE IF factor = "education" THEN DblLiteral(15, 100)
    ELSE IF factor = "employment" THEN DblLiteral(20, 100)
    ELSE IF factor = "income" THEN DblLiteral(20, 100)
    ELSE IF factor = "living_arrangement" THEN DblLiteral(5, 100)
    ELSE IF factor = "pdn" THEN DblLiteral(15, 100)
    ELSE IF factor = "loan_history" THEN DblLiteral(10, 100)
    ELSE IF factor = "device_type" THEN DblLiteral(3, 100)
    ELSE DblLiteral(2, 100)

\* the float literal the section multiplies the score by
factor_multiplier(factor) ==
    IF factor = "age" THEN DblLiteral(15, 100)
    ELSE IF factor = "gender" THEN DblLiteral(5, 100)
    ELSE IF factor = "marital_status" THEN DblLiteral(5, 100)
    ELSE IF factor = "education" THEN DblLiteral(10, 100)
    ELSE IF factor = "employment" THEN DblLiteral(20, 100)
    ELSE IF factor = "income" THEN DblLiteral(20, 100)
    ELSE IF factor = "living_arrangement" THEN DblLiteral(5, 100)
    ELSE IF factor = "pdn" THEN DblLiteral(15, 100)
    ELSE IF factor = "loan_history" THEN DblLiteral(10, 100)
    ELSE IF factor = "device_type" THEN DblLiteral(3, 100)
    ELSE DblLiteral(2, 100)

\* the dict a section appends to factors
weighted_factor(factor, score) ==
    [factor |-> factor, score |-> score, weight |-> factor_weight(factor),
     weighted_score |-> DblMulInt(factor_multiplier(factor), score)]

\* the dict appended for a referral
referral_factor ==
    [factor |-> "referral", score |-> 50, weight |-> 0,
     weighted_score |-> DblFromInt(50)]

\* lines 543-547
normalized_score(weighted, weight) ==
    IF weight > 0 THEN DblMulInt(DblDivInt(weighted, weight), 100)
    ELSE DblFromInt(50)

\* a referral that adds nothing to the normalized score
referral_bonus_forgotten(has_referral) == 0

\* line 550: the bonus added to the normalized score
referral_bonus(has_referral) == IF has_referral THEN 50 ELSE 0

\* lines 550-553
scaled_score(weighted, weight, has_referral) ==
    LET final_score ==
            DblToInt(DblAdd(normalized_score(weighted, weight),
                            DblFromInt(referral_bonus(has_referral))))
    IN  Min({900, Max({300, 300 + final_score * 6})})

\* lines 555-570
score_category(score) ==
    IF score >= 800 THEN [category |-> "excellent", approval_probability |-> 95]
    ELSE IF score >= 700 THEN [category |-> "good", approval_probability |-> 80]
    ELSE IF score >= 600 THEN [category |-> "fair", approval_probability |-> 60]
    ELSE IF score >= 500 THEN [category |-> "poor", approval_probability |-> 30]
    ELSE [category |-> "very_poor", approval_probability |-> 10]

\* advice that passes over a weak loan history
factor_recommendation_without_history(f) ==
    IF f.score < 50 /\ f.factor \in {"employment", "income", "pdn"}
    THEN <<f.factor>>
    ELSE <<>>

\* the advice for one factor, if any
factor_recommendation(f) ==
    IF f.score < 50 /\ f.factor \in {"employment", "income", "pdn", "loan_history"}
    THEN <<f.factor>>
    ELSE <<>>

RECURSIVE factor_recommendations(_)
factor_recommendations(fs) ==
    IF fs = <<>> THEN <<>>
    ELSE factor_recommendation(Head(fs)) \o factor_recommendations(Tail(fs))

\* the general advice of the category, then the advice for each weak factor
get_score_recommendations(category, fs) ==
    <<category>> \o factor_recommendations(fs)

\* lines 572-584: what calculate_total_score returns; calculation_date is
\* the date of datetime.now(), the time of day is left out
score_result(fs, weighted, weight, has_referral, now) ==
    LET score == scaled_score(weighted, weight, has_referral)
        cat == score_category(score)
    IN  [status |-> "ok",
         credit_score |-> score,
         category |-> cat.category,
         approval_probability |-> cat.approval_probability,
         factors |-> fs,
         summary |-> [total_factors |-> Len(fs),
                      has_referral_bonus |-> has_referral,
                      calculation_date |-> now],
         recommendations |-> get_score_recommendations(cat.category, fs)]

-----------------------------------------------------------------------------
(* The calls.  A session draws one request, prices it with                 *)
(* calculate_loan_details, runs auto_correct_loan_params on it step by     *)
(* step, and then runs auto_correct_loan_params again on the amount and    *)
(* term it returned.                                                       *)

MaxRuns == 2

\* date.today() when a session starts
Today == [year |-> 2025, month |-> 6, day |-> 15]

Amounts == {0, 1, 100001, 100002, 10000000, 30000000,
            MAX_LOAN_AMOUNT, MAX_LOAN_AMOUNT + 1}
Terms   == {0, 1, 12, 36, 37}
Rates   == {0, 24}
Incomes == {0, 10000, 200000000}
Others  == {0, 4999, 100000000}
Targets == {5000}

VARIABLES
    request,           \* the arguments of the call
    loan,              \* what calculate_loan_details returned for them
    pc,                \* the position in auto_correct_loan_params
    monthly_payment,   \* tiyin
    current_pdn,       \* hundredths of a percent
    corrections,
    corrected_amount,
    corrected_months,
    min_amount,
    max_amount,
    mid_amount,        \* the last candidate of the binary search, 0 if none
    result,            \* what auto_correct_loan_params returned or raised
    previous,          \* the result of the run before this one
    run,
    factors,               \* of calculate_total_score
    total_weighted_score,  \* a float
    total_weight,
    today,                 \* the date of the system clock
    applications,          \* the applications table
    bank_offers,           \* the bank_offers table
    users,                 \* the users table
    user_attributes,       \* the attributes of the model class User
    otp,                   \* the value of the key otp:{phone}, "" if none
    otp_issue,             \* which stored code that is: the n-th, 0 if none
    otp_sends,             \* the value of the key rate_limit:otp_send:{phone}
    verifier,              \* the verify_code calls in progress, per worker
    accepted,              \* how many calls each stored code made return True
    response               \* what a request handler answered or raised

vars == <<request, loan, pc, monthly_payment, current_pdn, corrections,
          corrected_amount, corrected_months, min_amount, max_amount,
          mid_amount, result, previous, run, factors, total_weighted_score,
          total_weight, today, applications, bank_offers, users,
          user_attributes, otp, otp_issue, otp_sends, verifier, accepted,
          response>>

locals == <<monthly_payment, current_pdn, corrections, corrected_amount,
            corrected_months, min_amount, max_amount, mid_amount>>

\* the locals of calculate_total_score
scoring == <<factors, total_weighted_score, total_weight>>

\* the relational store and the answers of the request handlers
offer_tables == <<applications, bank_offers>>

referral_tables == <<users, user_attributes>>

otp_state == <<otp, otp_issue, otp_sends, verifier, accepted>>

storage == <<offer_tables, referral_tables, otp_state, response>>

\* what the engine's functions do not write
service == <<today, storage>>

None == [status |-> "none"]

\* the store of a session that does not touch it
OfferTablesIdle ==
    /\ applications = <<>>
    /\ bank_offers = {}

ReferralTablesIdle ==
    /\ users = <<>>
    /\ user_attributes = {}

OtpIdle ==
    /\ otp = ""
    /\ otp_issue = 0
    /\ otp_sends = 0
    /\ verifier = <<>>
    /\ accepted = <<>>

StorageInit ==
    /\ OfferTablesIdle
    /\ ReferralTablesIdle
    /\ OtpIdle
    /\ response = None

Init ==
    /\ request \in [amount : Amounts, annual_rate : Rates, months : Terms,
                    monthly_income : Incomes, other_monthly_payments : Others,
                    target_pdn : Targets]
    /\ loan = None
    /\ pc = "details"
    /\ monthly_payment = <<>>
    /\ current_pdn = <<>>
    /\ corrections = <<>>
    /\ corrected_amount = 0
    /\ corrected_months = 0
    /\ min_amount = 0
    /\ max_amount = 0
    /\ mid_amount = 0
    /\ result = None
    /\ previous = None
    /\ run = 1
    /\ factors = <<>>
    /\ total_weighted_score = DblZero
    /\ total_weight = 0
    /\ today = Today
    /\ StorageInit

\* calculate_loan_details(amount, annual_rate, months)
CalculateLoanDetails ==
    /\ pc = "details"
    /\ loan' = calculate_loan_details(request.amount, request.annual_rate,
                                      request.months)
    /\ pc' = "enter"
    /\ UNCHANGED <<request, locals, result, previous, run>>
    /\ UNCHANGED scoring
    /\ UNCHANGED service

\* auto_correct_loan_params, lines 95-119: validation, the initial payment
\* and PDN, and the return when the PDN is already acceptable
Enter ==
    /\ pc = "enter"
    /\ LET errors == validate_loan_params(request.amount, request.months)
       IN  IF errors # <<>>
           THEN /\ result' = [status |-> "InvalidLoanParameters",
                              errors |-> errors]
                /\ pc' = "raised"
                /\ UNCHANGED locals
           ELSE IF monthly_payment_raises(request.amount, request.months)
           THEN /\ result' = [status |-> "ValueError"]
                /\ pc' = "raised"
                /\ UNCHANGED locals
           ELSE IF request.monthly_income <= 0
           THEN /\ result' = [status |-> "InvalidIncome"]
                /\ pc' = "raised"
                /\ UNCHANGED locals
           ELSE LET payment == calculate_monthly_payment(
                                   request.amount, request.annual_rate,
                                   request.months)
                    pdn == calculate_pdn(payment, request.monthly_income,
                                         request.other_monthly_payments)
                IN  /\ monthly_payment' = payment
                    /\ current_pdn' = pdn
                    /\ corrections' = <<>>
                    /\ corrected_amount' = request.amount
                    /\ corrected_months' = request.months
                    /\ UNCHANGED <<min_amount, max_amount, mid_amount>>
                    /\ IF pdn_acceptable(pdn, request.target_pdn)
                       THEN /\ result' = correction_result(
                                   request.amount, request.months, payment,
                                   pdn, FALSE, <<>>)
                            /\ pc' = "returned"
                       ELSE /\ result' = result
                            /\ pc' = "extend"
    /\ UNCHANGED <<request, loan, previous, run>>
    /\ UNCHANGED scoring
    /\ UNCHANGED service

\* lines 121-143: step 1, the term extended to 36 months
ExtendTerm ==
    /\ pc = "extend"
    /\ IF term_extension_applies(request.months)
       THEN LET payment == calculate_monthly_payment(
                               request.amount, request.annual_rate, 36)
                pdn == calculate_pdn(payment, request.monthly_income,
                                     request.other_monthly_payments)
                log == Append(corrections,
                              [type |-> "term_extended",
                               from |-> request.months, to |-> 36])
            IN  /\ corrected_months' = 36
                /\ monthly_payment' = payment
                /\ current_pdn' = pdn
                /\ corrections' = log
                /\ IF pdn_acceptable(pdn, request.target_pdn)
                   THEN /\ result' = correction_result(
                               corrected_amount, 36, payment, pdn, TRUE, log)
                        /\ pc' = "returned"
                   ELSE /\ result' = result
                        /\ pc' = "reduce"
       ELSE /\ pc' = "reduce"
            /\ UNCHANGED <<corrected_months, monthly_payment, current_pdn,
                           corrections, result>>
    /\ UNCHANGED <<request, loan, corrected_amount, min_amount, max_amount,
                   mid_amount, previous, run>>
    /\ UNCHANGED scoring
    /\ UNCHANGED service

\* lines 145-154: the affordable payment ceiling and the search bounds
StartReduction ==
    /\ pc = "reduce"
    /\ IF max_monthly_payment_nonpositive(request.monthly_income,
                                          request.other_monthly_payments,
                                          request.target_pdn)
       THEN /\ result' = [status |-> "UnaffordableLoan"]
            /\ pc' = "raised"
            /\ UNCHANGED <<min_amount, max_amount>>
       ELSE /\ min_amount' = MIN_LOAN_AMOUNT
            /\ max_amount' = corrected_amount
            /\ pc' = "search"
            /\ result' = result
    /\ UNCHANGED <<request, loan, monthly_payment, current_pdn, corrections,
                   corrected_amount, corrected_months, mid_amount, previous,
                   run>>
    /\ UNCHANGED scoring
    /\ UNCHANGED service

\* lines 156-167: one iteration of the binary search
SearchStep ==
    /\ pc = "search"
    /\ search_continues(min_amount, max_amount)
    /\ LET mid == quantize_100000(min_amount + max_amount, 2)
           mid_payment == calculate_monthly_payment(
                              mid, request.annual_rate, corrected_months)
           mid_pdn == calculate_pdn(mid_payment, request.monthly_income,
                                    request.other_monthly_payments)
       IN  /\ mid_amount' = mid
           /\ IF pdn_acceptable(mid_pdn, request.target_pdn)
              THEN min_amount' = mid /\ max_amount' = max_amount
              ELSE max_amount' = mid /\ min_amount' = min_amount
    /\ UNCHANGED <<request, loan, pc, monthly_payment, current_pdn,
                   corrections, corrected_amount, corrected_months, result,
                   previous, run>>
    /\ UNCHANGED scoring
    /\ UNCHANGED service

\* lines 169-189: the lower bound is taken.  A lower bound the search never
\* raised is still settings.MIN_LOAN_AMOUNT, an int and not a Decimal (every
\* candidate is above it): at a zero rate calculate_monthly_payment then
\* divides int by int and calls quantize on a float, an AttributeError.
FinishReduction ==
    /\ pc = "search"
    /\ ~search_continues(min_amount, max_amount)
    /\ corrected_amount' = min_amount
    /\ IF min_amount = MIN_LOAN_AMOUNT /\ monthly_rate(request.annual_rate).num = 0
       THEN /\ result' = [status |-> "AttributeError"]
            /\ pc' = "raised"
            /\ UNCHANGED <<monthly_payment, current_pdn, corrections>>
       ELSE LET payment == calculate_monthly_payment(
                               min_amount, request.annual_rate,
                               corrected_months)
                pdn == calculate_pdn(payment, request.monthly_income,
                                     request.other_monthly_payments)
                log == Append(corrections,
                              [type |-> "amount_reduced",
                               from |-> request.amount, to |-> min_amount])
            IN  /\ monthly_payment' = payment
                /\ current_pdn' = pdn
                /\ corrections' = log
                /\ result' = correction_result(min_amount, corrected_months,
                                               payment, pdn, TRUE, log)
                /\ pc' = "returned"
    /\ UNCHANGED <<request, loan, corrected_months, min_amount, max_amount,
                   mid_amount, previous, run>>
    /\ UNCHANGED scoring
    /\ UNCHANGED service

\* auto_correct_loan_params called again with the amount and term it returned
Rerun ==
    /\ pc = "returned"
    /\ run < MaxRuns
    /\ request' = [request EXCEPT !.amount = result.amount,
                                  !.months = result.months]
    /\ previous' = result
    /\ run' = run + 1
    /\ pc' = "enter"
    /\ result' = None
    /\ monthly_payment' = <<>>
    /\ current_pdn' = <<>>
    /\ corrections' = <<>>
    /\ corrected_amount' = 0
    /\ corrected_months' = 0
    /\ min_amount' = 0
    /\ max_amount' = 0
    /\ mid_amount' = 0
    /\ UNCHANGED loan
    /\ UNCHANGED scoring
    /\ UNCHANGED service

Next ==
    \/ CalculateLoanDetails
    \/ Enter
    \/ ExtendTerm
    \/ StartReduction
    \/ SearchStep
    \/ FinishReduction
    \/ Rerun

Spec == Init /\ [][Next]_vars


-----------------------------------------------------------------------------
(* Single calls.  A session of CalcSpec draws one call of the engine with  *)
(* its arguments: a loan priced and auto-corrected as above (here at a     *)
(* negative rate), or one call of calculate_pdn, get_pdn_risk_level,       *)
(* calculate_max_loan_amount or analyze_pdn_scenario.                      *)

LoanCalls ==
    [call : {"loan"}, amount : {10000000, 30000000}, annual_rate : {-12},
     months : {12, 36}, monthly_income : {10000, 200000000},
     other_monthly_payments : {0, 4999}, target_pdn : {5000}]

PdnPayments == {0, 1, 50000000, 50000001, 100000000}
PdnIncomes  == {0, 1, 30000, 200000000}
PdnOthers   == {0, 1, 4999}

PdnCalls ==
    [call : {"calculate_pdn"}, monthly_payment : PdnPayments,
     monthly_income : PdnIncomes, other_monthly_payments : PdnOthers]

RiskLevelCalls ==
    [call : {"get_pdn_risk_level"},
     pdn : {0, 2999, 3000, 3001, 4999, 5000, 5001, 6499, 6500, 6501, 20000}]

MaxAmountCalls ==
    [call : {"calculate_max_loan_amount"}, annual_rate : {-12, 0, 24},
     months : {0, 1, 12, 36},
     monthly_income : {10000, 100000000, 100000100, 300000000, 1000000000},
     other_monthly_payments : {0, 4999, 5000, 50000000},
     target_pdn : {5000}]

ScenarioCalls ==
    [call : {"analyze_pdn_scenario"}, amount : {0, 1, 2, 1000, 10000000},
     annual_rate : {-12, 0, 24}, months : {0, 12, 36},
     monthly_income : {0, 200000000}, other_monthly_payments : {0}]

CalcInit ==
    /\ request \in LoanCalls \cup PdnCalls \cup RiskLevelCalls
                   \cup MaxAmountCalls \cup ScenarioCalls
    /\ loan = None
    /\ pc = IF request.call = "loan" THEN "details" ELSE "call"
    /\ monthly_payment = <<>>
    /\ current_pdn = <<>>
    /\ corrections = <<>>
    /\ corrected_amount = 0
    /\ corrected_months = 0
    /\ min_amount = 0
    /\ max_amount = 0
    /\ mid_amount = 0
    /\ result = None
    /\ previous = None
    /\ run = 1
    /\ factors = <<>>
    /\ total_weighted_score = DblZero
    /\ total_weight = 0
    /\ today = Today
    /\ StorageInit

\* calculate_pdn(monthly_payment, monthly_income, other_monthly_payments)
CallCalculatePdn ==
    /\ pc = "call"
    /\ request.call = "calculate_pdn"
    /\ IF request.monthly_income <= 0
       THEN /\ result' = [status |-> "InvalidIncome"]
            /\ pc' = "raised"
       ELSE /\ result' = [status |-> "ok",
                          pdn |-> calculate_pdn(
                                      BigFromInt(request.monthly_payment),
                                      request.monthly_income,
                                      request.other_monthly_payments)]
            /\ pc' = "returned"
    /\ UNCHANGED <<request, loan, locals, previous, run>>
    /\ UNCHANGED scoring
    /\ UNCHANGED service

\* get_pdn_risk_level(pdn)
CallGetPdnRiskLevel ==
    /\ pc = "call"
    /\ request.call = "get_pdn_risk_level"
    /\ result' = [status |-> "ok",
                  risk_level |-> get_pdn_risk_level(BigFromInt(request.pdn))]
    /\ pc' = "returned"
    /\ UNCHANGED <<request, loan, locals, previous, run>>
    /\ UNCHANGED scoring
    /\ UNCHANGED service

\* calculate_max_loan_amount(annual_rate, months, monthly_income,
\* other_monthly_payments, target_pdn)
CallCalculateMaxLoanAmount ==
    /\ pc = "call"
    /\ request.call = "calculate_max_loan_amount"
    /\ result' = [status |-> "ok",
                  max_amount |-> calculate_max_loan_amount(
                                     request.annual_rate, request.months,
                                     request.monthly_income,
                                     request.other_monthly_payments,
                                     request.target_pdn)]
    /\ pc' = "returned"
    /\ UNCHANGED <<request, loan, locals, previous, run>>
    /\ UNCHANGED scoring
    /\ UNCHANGED service

\* analyze_pdn_scenario(amount, annual_rate, months, monthly_income,
\* other_monthly_payments)
CallAnalyzePdnScenario ==
    /\ pc = "call"
    /\ request.call = "analyze_pdn_scenario"
    /\ result' = analyze_pdn_scenario(request.amount, request.annual_rate,
                                      request.months, request.monthly_income,
                                      request.other_monthly_payments)
    /\ pc' = IF result'.status = "ok" THEN "returned" ELSE "raised"
    /\ UNCHANGED <<request, loan, locals, previous, run>>
    /\ UNCHANGED scoring
    /\ UNCHANGED service

CalcNext ==
    \/ CalculateLoanDetails
    \/ Enter
    \/ ExtendTerm
    \/ StartReduction
    \/ SearchStep
    \/ FinishReduction
    \/ CallCalculatePdn
    \/ CallGetPdnRiskLevel
    \/ CallCalculateMaxLoanAmount
    \/ CallAnalyzePdnScenario

CalcSpec == CalcInit /\ [][CalcNext]_vars

-----------------------------------------------------------------------------
(* Scoring.  A session of ScoreSpec draws the arguments of one call of     *)
(* calculate_total_score without a referral, runs it section by section,   *)
(* and then runs it again on the same arguments with has_referral set.     *)

BirthDates == {EmptyDict, [birth_date |-> [year |-> 1999, month |-> 6, day |-> 16]]}

Genders == {EmptyDict, [gender |-> Gender["FEMALE"]]}

MaritalStatuses == {EmptyDict, [marital_status |-> MaritalStatus["DIVORCED"]]}

Educations == {EmptyDict, [education |-> EducationLevel["BASIC"]]}

Employments ==
    {EmptyDict,
     [employment_type |-> EmploymentType["EMPLOYED"],
      employment_duration_months |-> 40]}

ScoredIncomes ==
    {EmptyDict,
     [monthly_income |-> 3000000],
     [monthly_income |-> 3000000, income_source |-> IncomeSource["OTHER"]]}

Livings == {EmptyDict, [living_arrangement |-> LivingArrangement["ALONE"]]}

PersonalDatas ==
    {b @@ g @@ m @@ e @@ w @@ i @@ l :
        b \in BirthDates, g \in Genders, m \in MaritalStatuses,
        e \in Educations, w \in Employments, i \in ScoredIncomes,
        l \in Livings}

RiskLevels == {"low", "high", "critical"}

LoanHistories == {EmptyDict, [total_loans |-> 5, overdue_loans |-> 1]}

DeviceInfos ==
    {EmptyDict,
     [region |-> "Tashkent"],
     [device_type |-> "Android", region |-> "cyr:Samarkand"]}

ScoreCalls ==
    [call : {"calculate_total_score"}, personal_data : PersonalDatas,
     pdn_risk_level : RiskLevels, loan_history : LoanHistories,
     device_info : DeviceInfos, has_referral : {FALSE}]

\* lines 377-379
ScoreInit ==
    /\ request \in ScoreCalls
    /\ loan = None
    /\ pc = "age"
    /\ monthly_payment = <<>>
    /\ current_pdn = <<>>
    /\ corrections = <<>>
    /\ corrected_amount = 0
    /\ corrected_months = 0
    /\ min_amount = 0
    /\ max_amount = 0
    /\ mid_amount = 0
    /\ result = None
    /\ previous = None
    /\ run = 1
    /\ factors = <<>>
    /\ total_weighted_score = DblZero
    /\ total_weight = 0
    /\ today = Today
    /\ StorageInit

\* a section whose attribute is supplied: append the factor, add to the totals
AddFactor(factor, score, next) ==
    /\ factors' = Append(factors, weighted_factor(factor, score))
    /\ total_weighted_score' =
           DblAdd(total_weighted_score,
                  DblMulInt(factor_multiplier(factor), score))
    /\ total_weight' = total_weight + factor_weight(factor)
    /\ pc' = next

\* a section whose attribute is not supplied
SkipFactor(next) ==
    /\ pc' = next
    /\ UNCHANGED scoring

\* lines 381-392
ScoreAge ==
    /\ pc = "age"
    /\ IF "birth_date" \in DOMAIN request.personal_data
       THEN AddFactor("age",
                      calculate_age_score(today,
                                          request.personal_data["birth_date"]),
                      "gender")
       ELSE SkipFactor("gender")
    /\ UNCHANGED <<request, loan, locals, result, previous, run>>
    /\ UNCHANGED service

\* lines 394-405
ScoreGender ==
    /\ pc = "gender"
    /\ IF "gender" \in DOMAIN request.personal_data
       THEN AddFactor("gender",
                      calculate_gender_score(request.personal_data["gender"]),
                      "marital_status")
       ELSE SkipFactor("marital_status")
    /\ UNCHANGED <<request, loan, locals, result, previous, run>>
    /\ UNCHANGED service

\* lines 407-418
ScoreMaritalStatus ==
    /\ pc = "marital_status"
    /\ IF "marital_status" \in DOMAIN request.personal_data
       THEN AddFactor("marital_status",
                      calculate_marital_status_score(
                          request.personal_data["marital_status"]),
                      "education")
       ELSE SkipFactor("education")
    /\ UNCHANGED <<request, loan, locals, result, previous, run>>
    /\ UNCHANGED service

\* lines 420-431
ScoreEducation ==
    /\ pc = "education"
    /\ IF "education" \in DOMAIN request.personal_data
       THEN AddFactor("education",
                      calculate_education_score(
                          request.personal_data["education"]),
                      "employment")
       ELSE SkipFactor("employment")
    /\ UNCHANGED <<request, loan, locals, result, previous, run>>
    /\ UNCHANGED service

\* lines 433-447
ScoreEmployment ==
    /\ pc = "employment"
    /\ IF "employment_type" \in DOMAIN request.personal_data
       THEN AddFactor("employment",
                      calculate_employment_score(
                          request.personal_data["employment_type"],
                          Get(request.personal_data,
                              "employment_duration_months", 0)),
                      "income")
       ELSE SkipFactor("income")
    /\ UNCHANGED <<request, loan, locals, result, previous, run>>
    /\ UNCHANGED service

\* lines 449-463
ScoreIncome ==
    /\ pc = "income"
    /\ IF /\ "monthly_income" \in DOMAIN request.personal_data
          /\ "income_source" \in DOMAIN request.personal_data
       THEN AddFactor("income",
                      calculate_income_score(
                          request.personal_data["monthly_income"],
                          request.personal_data["income_source"]),
                      "living_arrangement")
       ELSE SkipFactor("living_arrangement")
    /\ UNCHANGED <<request, loan, locals, result, previous, run>>
    /\ UNCHANGED service

\* lines 465-476
ScoreLiving ==
    /\ pc = "living_arrangement"
    /\ IF "living_arrangement" \in DOMAIN request.personal_data
       THEN LET living_result ==
                    calculate_living_score(
                        request.personal_data["living_arrangement"])
            IN  IF living_result.status = "ok"
                THEN /\ AddFactor("living_arrangement", living_result.score,
                                  "pdn")
                     /\ UNCHANGED result
                ELSE /\ result' = [status |-> living_result.status]
                     /\ pc' = "raised"
                     /\ UNCHANGED scoring
       ELSE /\ SkipFactor("pdn")
            /\ UNCHANGED result
    /\ UNCHANGED <<request, loan, locals, previous, run>>
    /\ UNCHANGED service

\* lines 478-488
ScorePdn ==
    /\ pc = "pdn"
    /\ AddFactor("pdn", calculate_pdn_score(request.pdn_risk_level),
                 "loan_history")
    /\ UNCHANGED <<request, loan, locals, result, previous, run>>
    /\ UNCHANGED service

\* lines 490-505
ScoreLoanHistory ==
    /\ pc = "loan_history"
    /\ IF request.loan_history # EmptyDict
       THEN AddFactor("loan_history",
                      calculate_loan_history_score(
                          Get(request.loan_history, "total_loans", 0),
                          Get(request.loan_history, "active_loans", 0),
                          Get(request.loan_history, "overdue_loans", 0)),
                      "device_type")
       ELSE SkipFactor("device_type")
    /\ UNCHANGED <<request, loan, locals, result, previous, run>>
    /\ UNCHANGED service

\* lines 507-518
ScoreDevice ==
    /\ pc = "device_type"
    /\ IF /\ request.device_info # EmptyDict
          /\ "device_type" \in DOMAIN request.device_info
       THEN AddFactor("device_type",
                      calculate_device_score(request.device_info["device_type"]),
                      "region")
       ELSE SkipFactor("region")
    /\ UNCHANGED <<request, loan, locals, result, previous, run>>
    /\ UNCHANGED service

\* lines 520-531
ScoreRegion ==
    /\ pc = "region"
    /\ IF /\ request.device_info # EmptyDict
          /\ "region" \in DOMAIN request.device_info
       THEN AddFactor("region",
                      calculate_region_score(request.device_info["region"]),
                      "referral")
       ELSE SkipFactor("referral")
    /\ UNCHANGED <<request, loan, locals, result, previous, run>>
    /\ UNCHANGED service

\* lines 533-541
ScoreReferral ==
    /\ pc = "referral"
    /\ IF request.has_referral
       THEN factors' = Append(factors, referral_factor)
       ELSE UNCHANGED factors
    /\ pc' = "normalize"
    /\ UNCHANGED <<total_weighted_score, total_weight>>
    /\ UNCHANGED <<request, loan, locals, result, previous, run>>
    /\ UNCHANGED service

\* lines 543-584
ReturnScore ==
    /\ pc = "normalize"
    /\ result' = score_result(factors, total_weighted_score, total_weight,
                              request.has_referral, today)
    /\ pc' = "returned"
    /\ UNCHANGED <<request, loan, locals, previous, run>>
    /\ UNCHANGED scoring
    /\ UNCHANGED service

\* the same call again, now with a referral
RerunWithReferral ==
    /\ pc = "returned"
    /\ ~request.has_referral
    /\ request' = [request EXCEPT !.has_referral = TRUE]
    /\ previous' = result
    /\ run' = run + 1
    /\ pc' = "age"
    /\ result' = None
    /\ factors' = <<>>
    /\ total_weighted_score' = DblZero
    /\ total_weight' = 0
    /\ UNCHANGED <<loan, locals>>
    /\ UNCHANGED service

ScoreNext ==
    \/ ScoreAge
    \/ ScoreGender
    \/ ScoreMaritalStatus
    \/ ScoreEducation
    \/ ScoreEmployment
    \/ ScoreIncome
    \/ ScoreLiving
    \/ ScorePdn
    \/ ScoreLoanHistory
    \/ ScoreDevice
    \/ ScoreRegion
    \/ ScoreReferral
    \/ ReturnScore
    \/ RerunWithReferral

ScoreSpec == ScoreInit /\ [][ScoreNext]_vars

-----------------------------------------------------------------------------
(* Repeated calls.  A session of RepeatSpec runs calculate_total_score and *)
(* then runs it again on identical arguments, on the same day or on the    *)
(* day after.                                                              *)

RepeatedPersonalDatas ==
    {b @@ g @@ w : b \in BirthDates, g \in Genders, w \in Employments}

RepeatCalls ==
    [call : {"calculate_total_score"}, personal_data : RepeatedPersonalDatas,
     pdn_risk_level : RiskLevels, loan_history : LoanHistories,
     device_info : DeviceInfos, has_referral : BOOLEAN]

RepeatInit ==
    /\ request \in RepeatCalls
    /\ loan = None
    /\ pc = "age"
    /\ monthly_payment = <<>>
    /\ current_pdn = <<>>
    /\ corrections = <<>>
    /\ corrected_amount = 0
    /\ corrected_months = 0
    /\ min_amount = 0
    /\ max_amount = 0
    /\ mid_amount = 0
    /\ result = None
    /\ previous = None
    /\ run = 1
    /\ factors = <<>>
    /\ total_weighted_score = DblZero
    /\ total_weight = 0
    /\ today = Today
    /\ StorageInit

\* the day after, within the month
NextDay(d) == [d EXCEPT !.day = d.day + 1]

\* the same call again, later: the clock shows the same day or the next
RerunLater ==
    /\ pc = "returned"
    /\ run < MaxRuns
    /\ today' \in {today, NextDay(today)}
    /\ previous' = result
    /\ run' = run + 1
    /\ pc' = "age"
    /\ result' = None
    /\ factors' = <<>>
    /\ total_weighted_score' = DblZero
    /\ total_weight' = 0
    /\ UNCHANGED <<request, loan, locals>>
    /\ UNCHANGED storage

RepeatNext ==
    \/ ScoreAge
    \/ ScoreGender
    \/ ScoreMaritalStatus
    \/ ScoreEducation
    \/ ScoreEmployment
    \/ ScoreIncome
    \/ ScoreLiving
    \/ ScorePdn
    \/ ScoreLoanHistory
    \/ ScoreDevice
    \/ ScoreRegion
    \/ ScoreReferral
    \/ ReturnScore
    \/ RerunLater

RepeatSpec == RepeatInit /\ [][RepeatNext]_vars

-----------------------------------------------------------------------------
(* app/api/v1/applications.py: get_application_offers, over the tables of  *)
(* app/models.  A row is a record of the columns its model class declares; *)
(* reading an attribute that the class does not declare raises             *)
(* AttributeError, as it does in Python.                                   *)

\* the members of the enumeration ApplicationStatus
ApplicationStatus ==
    ("NEW" :> "new") @@ ("SENT" :> "sent") @@ ("ARCHIVED" :> "archived")

\* the columns and relationships of the model class Application
ApplicationColumns ==
    {"id", "user_id", "amount", "term_months", "monthly_income",
     "monthly_payment", "pdn_ratio", "status", "created_at", "updated_at",
     "sent_at", "user"}

\* the columns of the model class BankOffer
BankOfferColumns ==
    {"id", "name", "logo_url", "min_amount", "max_amount", "annual_rate",
     "daily_rate", "rating", "reviews_count", "is_active", "created_at",
     "updated_at", "min_term_months", "max_term_months", "min_age",
     "max_age", "processing_time_hours"}

HTTPException(status_code) ==
    [status |-> "HTTPException", status_code |-> status_code]

AttributeError(name) == [status |-> "AttributeError", name |-> name]

\* the attribute reads of a sequence of <<declared names, name>> pairs, in
\* order: the first name that is not declared, "" when all are
first_missing(reads) ==
    LET missing == {i \in DOMAIN reads : reads[i][2] \notin reads[i][1]}
    IN  IF missing = {} THEN "" ELSE reads[Min(missing)][2]

\* the attribute reads of the offers query, in the order it is built
offers_query_reads ==
    <<<<BankOfferColumns, "is_active">>,
      <<BankOfferColumns, "min_amount">>, <<ApplicationColumns, "amount">>,
      <<BankOfferColumns, "max_amount">>, <<ApplicationColumns, "amount">>,
      <<BankOfferColumns, "min_months">>, <<ApplicationColumns, "months">>,
      <<BankOfferColumns, "max_months">>, <<ApplicationColumns, "months">>,
      <<BankOfferColumns, "min_score">>, <<ApplicationColumns, "score">>,
      <<BankOfferColumns, "annual_rate">>>>

\* a < b on signed amounts
SignedLt(a, b) ==
    IF a.neg # b.neg THEN a.neg
    ELSE IF a.neg THEN BigLt(b.mag, a.mag) ELSE BigLt(a.mag, b.mag)

\* the rows that the where clause of the offers query keeps
matching_offers(application, rows) ==
    {offer \in rows :
        /\ offer.is_active
        /\ offer.min_amount <= application.amount
        /\ offer.max_amount >= application.amount
        /\ offer.min_months <= application.months
        /\ offer.max_months >= application.months
        /\ offer.min_score <= application.score}

\* the orders in which a query ordered by annual_rate can return rows:
\* the store is free in the order of rows of equal rate
order_by_annual_rate(rows) ==
    {s \in [1..Cardinality(rows) -> rows] :
        \A i, j \in DOMAIN s :
            i < j => s[i] # s[j] /\ s[i].annual_rate <= s[j].annual_rate}

\* calculate_loan_details for each offer of the query, in its order
priced_offers(application, ordered) ==
    [i \in DOMAIN ordered |->
        calculate_loan_details(application.amount, ordered[i].annual_rate,
                               application.months)]

\* the loop over the offers from the i-th on, priced[i] being loan_calc for
\* ordered[i]; st holds offers, best_overpayment and best_offer_id, or the
\* exception raised
RECURSIVE offers_loop(_, _, _, _)
offers_loop(ordered, priced, i, st) ==
    IF st.status # "ok" \/ i > Len(ordered) THEN st
    ELSE IF priced[i].status # "ok" THEN [status |-> priced[i].status]
    \* match_score -= (offer.annual_rate - 20) * 2: float less Decimal
    ELSE IF ordered[i].annual_rate > 20 THEN [status |-> "TypeError"]
    ELSE
    LET better == \/ st.best_overpayment = None
                  \/ SignedLt(priced[i].overpayment, st.best_overpayment)
        match == [offer_id        |-> ordered[i].id,
                  annual_rate     |-> ordered[i].annual_rate,
                  monthly_payment |-> priced[i].monthly_payment,
                  total_cost      |-> priced[i].total_cost,
                  overpayment     |-> priced[i].overpayment]
        after == [status |-> "ok",
                  offers |-> Append(st.offers, match),
                  best_overpayment |->
                      IF better THEN priced[i].overpayment
                      ELSE st.best_overpayment,
                  best_offer_id |->
                      IF better THEN ordered[i].id ELSE st.best_offer_id]
    IN  IF Len(after.offers) = i
        THEN offers_loop(ordered, priced, i + 1, after)
        ELSE after

\* the id that stands for no offer (null)
NoOffer == "null"

\* what the handler does with the rows of the query, in their order
offers_response(application, ordered) ==
    LET st == offers_loop(ordered, priced_offers(application, ordered), 1,
                          [status |-> "ok", offers |-> <<>>,
                           best_overpayment |-> None,
                           best_offer_id |-> NoOffer])
    IN  IF st.status # "ok" THEN st
        ELSE [status         |-> "ok",
              application_id |-> application.id,
              offers         |-> st.offers,
              best_offer_id  |-> st.best_offer_id,
              total_offers   |-> Len(st.offers)]

\* get_application_offers: the set of what it can answer or raise
get_application_offers(application_id, current_user, table, rows) ==
    IF application_id \notin DOMAIN table
    THEN {HTTPException(404)}
    ELSE
    LET application == table[application_id]
    IN  IF application.user_id # current_user
        THEN {HTTPException(403)}
        ELSE IF "APPROVED" \notin DOMAIN ApplicationStatus
        THEN {AttributeError("APPROVED")}
        ELSE IF application.status # ApplicationStatus["APPROVED"]
        THEN {HTTPException(400)}
        ELSE IF first_missing(offers_query_reads) # ""
        THEN {AttributeError(first_missing(offers_query_reads))}
        ELSE {offers_response(application, ordered) :
                 ordered \in order_by_annual_rate(
                                 matching_offers(application, rows))}

(* The sessions of OfferSpec: one request for the offers of an application *)
(* over a store of one application and some bank offers.                   *)

UserIds == {1, 2}

ApplicationRows ==
    [id : {1}, user_id : {1}, amount : {1000000, 5000000},
     term_months : {12}, status : {"new", "sent", "archived"}]

BankOfferRows ==
    {[id |-> "offer-1", name |-> "Bank 1", min_amount |-> 500000,
      max_amount |-> 10000000, annual_rate |-> 18, is_active |-> TRUE,
      min_term_months |-> 3, max_term_months |-> 24],
     [id |-> "offer-2", name |-> "Bank 2", min_amount |-> 500000,
      max_amount |-> 10000000, annual_rate |-> 18, is_active |-> TRUE,
      min_term_months |-> 3, max_term_months |-> 24],
     [id |-> "offer-3", name |-> "Bank 3", min_amount |-> 2000000,
      max_amount |-> 50000000, annual_rate |-> 24, is_active |-> TRUE,
      min_term_months |-> 6, max_term_months |-> 36]}

OfferRequests ==
    [call : {"get_application_offers"}, application_id : {1, 2},
     current_user : UserIds]

\* the engine's variables in a session that does not run the engine
EngineIdle ==
    /\ loan = None
    /\ monthly_payment = <<>>
    /\ current_pdn = <<>>
    /\ corrections = <<>>
    /\ corrected_amount = 0
    /\ corrected_months = 0
    /\ min_amount = 0
    /\ max_amount = 0
    /\ mid_amount = 0
    /\ result = None
    /\ previous = None
    /\ run = 1
    /\ factors = <<>>
    /\ total_weighted_score = DblZero
    /\ total_weight = 0
    /\ today = Today

engine == <<loan, locals, result, previous, run, scoring, today>>

OfferInit ==
    /\ request \in OfferRequests
    /\ pc = "received"
    /\ \E row \in ApplicationRows : applications = (row.id :> row)
    /\ bank_offers \in SUBSET BankOfferRows
    /\ response = None
    /\ ReferralTablesIdle
    /\ OtpIdle
    /\ EngineIdle

GetApplicationOffers ==
    /\ pc = "received"
    /\ request.call = "get_application_offers"
    /\ response' \in get_application_offers(request.application_id,
                                            request.current_user,
                                            applications, bank_offers)
    /\ pc' = "answered"
    /\ UNCHANGED <<request, offer_tables, referral_tables, otp_state, engine>>

OfferNext ==
    \/ GetApplicationOffers

OfferSpec == OfferInit /\ [][OfferNext]_vars

-----------------------------------------------------------------------------
(* app/services/referral.py: ReferralService.apply_referral over the users *)
(* table.  A row is a record of the attributes of the model class User;    *)
(* referred_by_id is NoUser where the column is NULL.  The class takes its *)
(* attributes from app/models/user.py and from its base class, which       *)
(* app/db/base.py defines; user_attributes holds them.                     *)

CODE_LENGTH == 6

MAX_REFERRALS_PER_DAY == 10

MAX_TOTAL_REFERRALS == 100

\* the columns and relationships that app/models/user.py declares
UserColumns ==
    {"id", "phone_number", "created_at", "updated_at", "is_verified",
     "referral_code", "referred_by_id", "personal_data", "applications",
     "referred_by", "referrals"}

\* the columns of the users table in the initial migration
UsersTableColumns ==
    {"id", "phone_number", "is_active", "is_verified", "referral_code",
     "referred_by_id", "created_at", "updated_at", "last_login"}

\* referred_by_id of a row without a referrer, and the id of no row
NoUser == 0

\* what a call returned
Returned(value) == [status |-> "returned", value |-> value]

\* the codes that callers pass
ReferralCodes ==
    {"", "ABC12", "ABC123", "abc123", "XYZ789", "QRS456", "NOBODY"}

\* str.upper on the codes of ReferralCodes
upper(code) == IF code = "abc123" THEN "ABC123" ELSE code

\* created_at >= today_start, on dates
not_before(d, start) ==
    \/ d.year > start.year
    \/ d.year = start.year /\ d.month > start.month
    \/ d.year = start.year /\ d.month = start.month /\ d.day >= start.day

\* validate_referral_code: the id of the referrer or NoUser, or the
\* exception that building the query raises
validate_referral_code(table, attributes, code) ==
    IF code = "" \/ Len(code) # CODE_LENGTH
    THEN Returned(NoUser)
    ELSE IF "referral_code" \notin attributes
    THEN AttributeError("referral_code")
    ELSE IF "is_active" \notin attributes
    THEN AttributeError("is_active")
    ELSE LET found == {id \in DOMAIN table :
                          /\ table[id].referral_code = upper(code)
                          /\ table[id].is_active = TRUE}
         IN  Returned(IF found = {} THEN NoUser ELSE Min(found))

\* the rows that a referrer has referred
referred_rows(table, referrer) ==
    {id \in DOMAIN table : table[id].referred_by_id = referrer}

\* the daily count: the referred rows created today
daily_count(table, referrer, now) ==
    Cardinality({id \in referred_rows(table, referrer) :
                    not_before(table[id].created_at, now)})

\* the total count
total_count(table, referrer) == Cardinality(referred_rows(table, referrer))

\* apply_referral: what it returns or raises, and the table it leaves
apply_referral(table, attributes, now, referred_user_id, referral_code) ==
    IF referred_user_id \notin DOMAIN table
    THEN [result |-> Returned(FALSE), users |-> table]
    ELSE IF table[referred_user_id].referred_by_id # NoUser
    THEN [result |-> Returned(FALSE), users |-> table]
    ELSE
    LET referrer == validate_referral_code(table, attributes, referral_code)
    IN  IF referrer.status # "returned"
        THEN [result |-> referrer, users |-> table]
        ELSE IF referrer.value = NoUser
        THEN [result |-> Returned(FALSE), users |-> table]
        ELSE IF referrer.value = referred_user_id
        THEN [result |-> Returned(FALSE), users |-> table]
        ELSE IF daily_count(table, referrer.value, now)
                    >= MAX_REFERRALS_PER_DAY
        THEN [result |-> Returned(FALSE), users |-> table]
        ELSE IF total_count(table, referrer.value) >= MAX_TOTAL_REFERRALS
        THEN [result |-> Returned(FALSE), users |-> table]
        ELSE [result |-> Returned(TRUE),
              users  |-> [table EXCEPT ![referred_user_id].referred_by_id =
                                           referrer.value]]

(* The sessions of ReferralSpec: any sequence of apply_referral calls over *)
(* a users table of three users who have no referrer yet and of a number   *)
(* of users whom the first of them referred earlier.                       *)

NewUsers == 3

Yesterday == [year |-> 2025, month |-> 6, day |-> 14]

\* how many users the first user referred before, and how many of these
\* today
EarlierReferrals ==
    {[total |-> 0, recent |-> 0], [total |-> 9, recent |-> 9],
     [total |-> 10, recent |-> 10], [total |-> 99, recent |-> 0],
     [total |-> 100, recent |-> 0]}

\* the attributes that the class User can have: those app/models/user.py
\* declares, alone or with the is_active of the users table
UserAttributes == {UserColumns, UserColumns \cup {"is_active"}}

\* the referral codes of the new users
code_of(id) == IF id = 1 THEN "ABC123" ELSE IF id = 2 THEN "XYZ789" ELSE "QRS456"

\* a row of the users table
user_row(id, attributes, earlier, third_active) ==
    [referral_code  |-> IF id <= NewUsers THEN code_of(id)
                        ELSE ToString(100000 + id),
     referred_by_id |-> IF id <= NewUsers THEN NoUser ELSE 1,
     created_at     |-> IF id <= NewUsers + earlier.recent THEN Today
                        ELSE Yesterday]
    @@ (IF "is_active" \in attributes
        THEN [is_active |-> (id # 3 \/ third_active)]
        ELSE EmptyDict)

UserTable(attributes, earlier, third_active) ==
    [id \in 1..(NewUsers + earlier.total) |->
        user_row(id, attributes, earlier, third_active)]

ReferralCalls ==
    [call : {"apply_referral"}, referred_user_id : 1..(NewUsers + 1),
     referral_code : ReferralCodes]

ReferralInit ==
    /\ pc = "serving"
    /\ request = None
    /\ response = None
    /\ user_attributes \in UserAttributes
    /\ \E earlier \in EarlierReferrals, third_active \in BOOLEAN :
           users = UserTable(user_attributes, earlier, third_active)
    /\ OfferTablesIdle
    /\ OtpIdle
    /\ EngineIdle

ApplyReferral ==
    /\ pc = "serving"
    /\ \E call \in ReferralCalls :
           LET out == apply_referral(users, user_attributes, today,
                                     call.referred_user_id,
                                     call.referral_code)
           IN  /\ request' = call
               /\ response' = out.result
               /\ users' = out.users
    /\ UNCHANGED <<pc, user_attributes, offer_tables, otp_state, engine>>

ReferralNext ==
    \/ ApplyReferral

ReferralSpec == ReferralInit /\ [][ReferralNext]_vars

-----------------------------------------------------------------------------
(* app/services/telegram_gateway.py and app/core/redis.py: the one-time    *)
(* codes of one phone.  The codes live in the key-value store, which every *)
(* worker of the service shares; each RedisService call is one command on  *)
(* the store, and the commands of different workers interleave.            *)

\* the limit of check_rate_limit in send_verification_code
OTP_SEND_LIMIT == 3

Workers == {1, 2}

\* the calls of verify_code that a worker makes in a session
MaxCalls == 2

\* the codes that generate_otp_code draws and that callers submit
OtpCodes == {"111111", "222222"}

\* a worker between calls
Idle == [pc |-> "idle", code |-> "", stored_code |-> "", issue |-> 0]

OtpInit ==
    /\ pc = "serving"
    /\ request = None
    /\ response = None
    /\ otp = ""
    /\ otp_issue = 0
    /\ otp_sends = 0
    /\ verifier = [w \in Workers |-> Idle @@ [calls |-> 0, result |-> None]]
    /\ accepted = [n \in 1..OTP_SEND_LIMIT |-> 0]
    /\ OfferTablesIdle
    /\ ReferralTablesIdle
    /\ EngineIdle

\* send_verification_code: the rate limit, then store_otp; whether the
\* gateway then delivers the code does not touch the store.  The counter
\* stops one above the limit, from where every further call is refused.
SendVerificationCode ==
    /\ otp_sends' = Min({otp_sends + 1, OTP_SEND_LIMIT + 1})
    /\ IF otp_sends + 1 <= OTP_SEND_LIMIT
       THEN /\ otp' \in OtpCodes
            /\ otp_issue' = otp_sends + 1
       ELSE UNCHANGED <<otp, otp_issue>>
    /\ UNCHANGED <<verifier, accepted>>
    /\ UNCHANGED <<request, pc, response, offer_tables, referral_tables>>
    /\ UNCHANGED engine

\* the key otp:{phone} reaches its time to live
ExpireOtp ==
    /\ otp # ""
    /\ otp' = ""
    /\ otp_issue' = 0
    /\ UNCHANGED <<otp_sends, verifier, accepted>>
    /\ UNCHANGED <<request, pc, response, offer_tables, referral_tables>>
    /\ UNCHANGED engine

\* verify_code is called with a code: stored_code = RedisService.get_otp(phone)
VerifyGet(w) ==
    /\ verifier[w].pc = "idle"
    /\ verifier[w].calls < MaxCalls
    /\ \E code \in OtpCodes :
           verifier' = [verifier EXCEPT ![w] =
                           [pc |-> "got", code |-> code, stored_code |-> otp,
                            issue |-> otp_issue, calls |-> @.calls + 1,
                            result |-> None]]
    /\ UNCHANGED <<otp, otp_issue, otp_sends, accepted>>
    /\ UNCHANGED <<request, pc, response, offer_tables, referral_tables>>
    /\ UNCHANGED engine

\* the code it read matches
verify_matches(local) == local.stored_code # "" /\ local.stored_code = local.code

\* no stored code, or another code: return False
VerifyReject(w) ==
    /\ verifier[w].pc = "got"
    /\ ~ verify_matches(verifier[w])
    /\ verifier' = [verifier EXCEPT ![w] =
                       Idle @@ [calls |-> @.calls, result |-> Returned(FALSE)]]
    /\ UNCHANGED <<otp, otp_issue, otp_sends, accepted>>
    /\ UNCHANGED <<request, pc, response, offer_tables, referral_tables>>
    /\ UNCHANGED engine

\* the codes are equal: RedisService.delete_otp(phone), return True
VerifyDelete(w) ==
    /\ verifier[w].pc = "got"
    /\ verify_matches(verifier[w])
    /\ otp' = ""
    /\ otp_issue' = 0
    /\ accepted' = [accepted EXCEPT ![verifier[w].issue] = @ + 1]
    /\ verifier' = [verifier EXCEPT ![w] =
                       Idle @@ [calls |-> @.calls, result |-> Returned(TRUE)]]
    /\ UNCHANGED otp_sends
    /\ UNCHANGED <<request, pc, response, offer_tables, referral_tables>>
    /\ UNCHANGED engine

OtpNext ==
    \/ SendVerificationCode
    \/ ExpireOtp
    \/ \E w \in Workers : VerifyGet(w)
    \/ \E w \in Workers : VerifyReject(w)
    \/ \E w \in Workers : VerifyDelete(w)

OtpSpec == OtpInit /\ [][OtpNext]_vars

-----------------------------------------------------------------------------
(* Properties.                                                             *)

Terminal == pc \in {"returned", "raised"}

InBounds ==
    /\ request.amount >= MIN_LOAN_AMOUNT
    /\ request.amount <= MAX_LOAN_AMOUNT
    /\ request.months >= MIN_LOAN_TERM_MONTHS
    /\ request.months <= MAX_LOAN_TERM_MONTHS

\* the PDN of the request's rate, income and obligations at an amount and term
PdnAt(amount, months) ==
    calculate_pdn(
        calculate_monthly_payment(amount, request.annual_rate, months),
        request.monthly_income, request.other_monthly_payments)

ExceedsTarget(pdn) == BigLt(BigFromInt(request.target_pdn), pdn)

CeilingNonPositive ==
    BigLe(BigMulSmall(BigFromInt(request.monthly_income), request.target_pdn),
          BigShift(BigFromInt(request.other_monthly_payments)))

HasStep(log, type) == \E i \in 1..Len(log) : log[i].type = type

StepTypes(log) == SubSeq([i \in 1..Len(log) |-> log[i].type], 1, Len(log))

\* C1: whenever auto_correct_loan_params returns a result, the returned PDN
\* is at most the target PDN.
C1_ResultWithinTarget ==
    pc = "returned" => ~ExceedsTarget(result.pdn)

\* C2: auto_correct_loan_params run again on the amount and term it returned
\* succeeds with corrected = False, no steps and the same amount and term.
C2_Idempotent ==
    (run > 1 /\ Terminal) =>
        /\ result.status = "ok"
        /\ result.corrected = FALSE
        /\ result.corrections = <<>>
        /\ result.amount = previous.amount
        /\ result.months = previous.months

\* C3: every iteration of the binary search takes a midpoint strictly between
\* min_amount and max_amount and strictly shrinks the interval, whose width
\* is a natural number: the search cannot go on for ever.
C3_SearchTerminates ==
    [][(pc = "search" /\ pc' = "search") =>
          /\ min_amount < mid_amount'
          /\ mid_amount' < max_amount
          /\ min_amount' >= min_amount
          /\ max_amount' <= max_amount
          /\ max_amount' - min_amount' >= 0
          /\ max_amount' - min_amount' < max_amount - min_amount]_vars

C3_Witness ==
    /\ pc = "search"
    /\ max_amount - min_amount <= 100000
    /\ min_amount > MIN_LOAN_AMOUNT
    /\ max_amount < corrected_amount

\* C4: the returned step log is [], [term_extended], [amount_reduced] or
\* [term_extended, amount_reduced]; term_extended only for a requested term
\* below 36 with the initial PDN above target; amount_reduced only when the
\* PDN at 36 months is above target, and then the final term is 36.
C4_StepLogShape ==
    pc = "returned" =>
        LET log == result.corrections
        IN  /\ StepTypes(log) \in {<<>>, <<"term_extended">>,
                                   <<"amount_reduced">>,
                                   <<"term_extended", "amount_reduced">>}
            /\ HasStep(log, "term_extended") =>
                   /\ request.months < 36
                   /\ ExceedsTarget(PdnAt(request.amount, request.months))
            /\ HasStep(log, "amount_reduced") =>
                   /\ ExceedsTarget(PdnAt(request.amount, 36))
                   /\ result.months = 36

C4_Witness ==
    /\ pc = "returned"
    /\ StepTypes(result.corrections) = <<"term_extended", "amount_reduced">>

\* C5: a request whose PDN is already at most the target is returned with
\* its amount and term unchanged, corrected = False and no steps.
C5_NoCorrectionNeeded ==
    (/\ Terminal
     /\ InBounds
     /\ request.monthly_income > 0
     /\ ~ExceedsTarget(PdnAt(request.amount, request.months))) =>
        /\ pc = "returned"
        /\ result.amount = request.amount
        /\ result.months = request.months
        /\ result.corrected = FALSE
        /\ result.corrections = <<>>

C5_Witness ==
    /\ pc = "returned"
    /\ run = 1
    /\ request.months < 36
    /\ result.corrected = FALSE
    /\ result.pdn = BigFromInt(request.target_pdn)

\* C6: auto_correct_loan_params raises UnaffordableLoan exactly when the PDN
\* still exceeds the target at 36 months (the extended or the requested
\* term) and monthly_income * target_pdn / 100 - other_monthly_payments <= 0;
\* nothing is returned then, not even the recorded term_extended step.
C6_UnaffordableExactly ==
    Terminal =>
        /\ (result.status = "UnaffordableLoan") <=>
               /\ InBounds
               /\ request.monthly_income > 0
               /\ CeilingNonPositive
               /\ ExceedsTarget(PdnAt(request.amount, request.months))
               /\ ExceedsTarget(PdnAt(request.amount,
                                      IF request.months < 36 THEN 36
                                      ELSE request.months))
        /\ result.status = "UnaffordableLoan" =>
               /\ pc = "raised"
               /\ DOMAIN result = {"status"}

C6_Witness ==
    /\ pc = "raised"
    /\ result.status = "UnaffordableLoan"
    /\ HasStep(corrections, "term_extended")

\* C7: after amount_reduced the final amount lies between the system minimum
\* and the requested amount, and the amounts from final + 100,000 up to the
\* requested amount (probed at both ends, next to the lower end and in the
\* middle) have a PDN above target at the final term.
Probes(lo, hi) ==
    {a \in {lo, lo + 1, (lo + hi) \div 2, hi} : lo <= a /\ a <= hi}

C7_LargestAffordable ==
    (pc = "returned" /\ HasStep(result.corrections, "amount_reduced")) =>
        /\ MIN_LOAN_AMOUNT <= result.amount
        /\ result.amount <= request.amount
        /\ \A a \in Probes(result.amount + 100000, request.amount) :
               ExceedsTarget(PdnAt(a, result.months))

C7_Witness ==
    /\ pc = "returned"
    /\ HasStep(result.corrections, "amount_reduced")
    /\ result.amount > MIN_LOAN_AMOUNT
    /\ result.amount + 100000 < request.amount

\* C8: amount 10,000,000 at 24% for 12 months on an income of 2,000,000, no
\* other payments, target 50: corrected = True, final term 36, the amount
\* unchanged and term_extended first in the step log.
C8_TermExtensionScenario ==
    (/\ run = 1
     /\ Terminal
     /\ request = [amount |-> 10000000, annual_rate |-> 24, months |-> 12,
                   monthly_income |-> 200000000,
                   other_monthly_payments |-> 0, target_pdn |-> 5000]) =>
        /\ result.status = "ok"
        /\ result.corrected = TRUE
        /\ result.months = 36
        /\ result.amount = 10000000
        /\ Len(result.corrections) >= 1
        /\ result.corrections[1].type = "term_extended"

\* C9: every amount derived by rounding (the binary-search candidates, the
\* reduced amount, the 75% alternative) is a whole multiple of 100,000
\* unless it was clamped to the system minimum.
C9_RoundedToHundredThousand ==
    /\ mid_amount # 0 => mid_amount % 100000 = 0
    /\ (pc = "returned" /\ HasStep(result.corrections, "amount_reduced")) =>
           \/ result.amount % 100000 = 0
           \/ result.amount = MIN_LOAN_AMOUNT
    /\ (pc = "returned" /\ request.amount > MIN_LOAN_AMOUNT) =>
           \/ reduced_amount(request.amount) % 100000 = 0
           \/ reduced_amount(request.amount) = MIN_LOAN_AMOUNT

\* C10: calculate_loan_details and auto_correct_loan_params raise
\* InvalidLoanParameters, and return no calculation or correction, whenever
\* the amount or the term is outside the system limits.
C10_OutOfBoundsRejected ==
    ~InBounds =>
        /\ loan # None => loan = [status |-> "InvalidLoanParameters"]
        /\ pc \notin {"details", "enter"} =>
               /\ pc = "raised"
               /\ result.status = "InvalidLoanParameters"
               /\ DOMAIN result = {"status", "errors"}

C10_Witness ==
    /\ pc = "raised"
    /\ request.amount > MAX_LOAN_AMOUNT
    /\ request.months >= MIN_LOAN_TERM_MONTHS
    /\ request.months <= MAX_LOAN_TERM_MONTHS
    /\ loan.status = "InvalidLoanParameters"
    /\ result.status = "InvalidLoanParameters"


HasNegativeRate ==
    "annual_rate" \in DOMAIN request /\ request.annual_rate < 0

\* C11: at a negative annual rate calculate_loan_details,
\* auto_correct_loan_params, calculate_max_loan_amount and
\* analyze_pdn_scenario each fail and return nothing.
C11_NegativeRateRejected ==
    HasNegativeRate =>
        /\ loan.status # "ok"
        /\ pc # "returned"

\* C12: for every amount, rate and term accepted by validation
\* calculate_loan_details returns monthly_payment > 0, total_cost >= amount
\* and overpayment = total_cost - amount >= 0, the total being the rounded
\* payment times the term.
C12_CostCoversPrincipal ==
    (loan.status = "ok" /\ request.annual_rate >= 0) =>
        LET principal == BigMulSmall(BigFromInt(loan.amount), 100)
        IN  /\ BigLt(<<>>, loan.monthly_payment)
            /\ loan.total_cost = BigMulSmall(loan.monthly_payment, loan.months)
            /\ BigLe(principal, loan.total_cost)
            /\ loan.overpayment = SignedDiff(loan.total_cost, principal)
            /\ ~loan.overpayment.neg

IsPdnCall == pc = "returned" /\ request.call = "calculate_pdn"

PdnOf(payment, income, other) ==
    calculate_pdn(BigFromInt(payment), income, other)

\* C13: calculate_pdn is non-decreasing in monthly_payment and in
\* other_monthly_payments and non-increasing in monthly_income, over
\* non-negative payments and positive incomes.
C13_PdnMonotone ==
    IsPdnCall =>
        /\ \A p \in PdnPayments :
               p >= request.monthly_payment =>
                   BigLe(result.pdn,
                         PdnOf(p, request.monthly_income,
                               request.other_monthly_payments))
        /\ \A o \in PdnOthers :
               o >= request.other_monthly_payments =>
                   BigLe(result.pdn,
                         PdnOf(request.monthly_payment,
                               request.monthly_income, o))
        /\ \A i \in PdnIncomes :
               i >= request.monthly_income =>
                   BigLe(PdnOf(request.monthly_payment, i,
                               request.other_monthly_payments),
                         result.pdn)

\* a call with a larger payment of equal PDN, a larger obligation of larger
\* PDN and a larger income of smaller PDN
C13_Witness ==
    /\ IsPdnCall
    /\ \E p \in PdnPayments :
           /\ p > request.monthly_payment
           /\ result.pdn = PdnOf(p, request.monthly_income,
                                 request.other_monthly_payments)
    /\ \E o \in PdnOthers :
           /\ o > request.other_monthly_payments
           /\ BigLt(result.pdn, PdnOf(request.monthly_payment,
                                      request.monthly_income, o))
    /\ \E i \in PdnIncomes :
           /\ i > request.monthly_income
           /\ BigLt(PdnOf(request.monthly_payment, i,
                          request.other_monthly_payments), result.pdn)

IsRiskLevelCall == pc = "returned" /\ request.call = "get_pdn_risk_level"

IsMaxAmountCall ==
    pc = "returned" /\ request.call = "calculate_max_loan_amount"

ZeroRateProduct ==
    BigMulSmall(max_monthly_payment(request.monthly_income,
                                    request.other_monthly_payments,
                                    request.target_pdn),
                request.months)

Millionths(amount) == BigMul(BigFromInt(amount), BigFromInt(1000000))

IsZeroRateCallWithinLimits ==
    /\ IsMaxAmountCall
    /\ request.annual_rate = 0
    /\ request.months > 0
    /\ ~CeilingNonPositive
    /\ BigLe(Millionths(MIN_LOAN_AMOUNT), ZeroRateProduct)
    /\ BigLe(ZeroRateProduct, Millionths(MAX_LOAN_AMOUNT))

ZeroRateExamples ==
    (/\ IsMaxAmountCall
     /\ request.annual_rate = 0
     /\ request.months = 12
     /\ request.other_monthly_payments = 0) =>
        /\ request.monthly_income = 100000000 => result.max_amount = 6000000
        /\ request.monthly_income = 300000000 => result.max_amount = 18000000

-----------------------------------------------------------------------------
(* Scoring properties, under ScoreSpec.                                    *)

IsScoreCall == request.call = "calculate_total_score"

FactorNames(fs) == [i \in 1..Len(fs) |-> fs[i].factor]

\* <<name>> if the attribute is supplied
Supplied(supplied, name) == IF supplied THEN <<name>> ELSE <<>>

\* One factor per supplied attribute, PDN, and the referral entry, in the
\* fixed order.  Income is supplied when both its amount and its source are.
ExpectedFactors ==
    LET pd == DOMAIN request.personal_data
        di == DOMAIN request.device_info
    IN  Supplied("birth_date" \in pd, "age")
        \o Supplied("gender" \in pd, "gender")
        \o Supplied("marital_status" \in pd, "marital_status")
        \o Supplied("education" \in pd, "education")
        \o Supplied("employment_type" \in pd, "employment")
        \o Supplied({"monthly_income", "income_source"} \subseteq pd, "income")
        \o Supplied("living_arrangement" \in pd, "living_arrangement")
        \o <<"pdn">>
        \o Supplied(request.loan_history # EmptyDict, "loan_history")
        \o Supplied("device_type" \in di, "device_type")
        \o Supplied("region" \in di, "region")
        \o Supplied(request.has_referral, "referral")

\* C20: calculate_total_score never fails on a partial personal_data: every
\* call returns, and the factors of the result are exactly one per supplied
\* attribute plus PDN (plus the referral entry), in the fixed order.
C20_PartialDataNeverFails ==
    (IsScoreCall /\ Terminal) =>
        /\ pc = "returned"
        /\ FactorNames(result.factors) = ExpectedFactors

\* C17: for every combination of present and absent inputs
\* calculate_total_score returns, and the credit_score it returns is an
\* integer between 300 and 900.
C17_ScoreReturnedInRange ==
    (IsScoreCall /\ Terminal) =>
        /\ pc = "returned"
        /\ result.credit_score \in 300..900

\* the sum of the weight fields of fs
RECURSIVE WeightSum(_)
WeightSum(fs) ==
    IF fs = <<>> THEN 0
    ELSE WeightSum(SubSeq(fs, 1, Len(fs) - 1)) + fs[Len(fs)].weight

\* the sum of score * weight/100 over fs, added up in the order of fs in the
\* engine's float arithmetic
RECURSIVE WeightedSum(_)
WeightedSum(fs) ==
    IF fs = <<>> THEN DblZero
    ELSE LET before == WeightedSum(SubSeq(fs, 1, Len(fs) - 1))
             weighted == DblMulInt(DblLiteral(fs[Len(fs)].weight, 100),
                                   fs[Len(fs)].score)
         IN  IF weighted = DblZero THEN before
             ELSE IF before = DblZero THEN weighted
             ELSE DblAdd(before, weighted)

\* the credit score that a normalized score of
\* WeightedSum / WeightSum * 100 over fs gives
ScoreOver(fs, has_referral) ==
    LET normalized == DblMulInt(DblDivInt(WeightedSum(fs), WeightSum(fs)), 100)
        bonus == IF has_referral THEN 50 ELSE 0
        final == DblToInt(DblAdd(normalized, DblFromInt(bonus)))
    IN  Min({900, Max({300, 300 + 6 * final})})

\* C18: at every point of calculate_total_score the running total weight is
\* the sum of the weights of the factors appended so far and the running
\* weighted sum is the sum of score * weight/100 over them; the score
\* returned is the one of the normalized score weighted sum / total weight
\* * 100 over exactly the factors of the result.
C18_RunningTotals ==
    IsScoreCall =>
        /\ total_weight = WeightSum(factors)
        /\ total_weighted_score = WeightedSum(factors)
        /\ pc = "returned" =>
               /\ result.factors = factors
               /\ result.credit_score = ScoreOver(factors, request.has_referral)

\* a call with a referral returned with several factors whose weights do not
\* add up to 100
C18_Witness ==
    /\ IsScoreCall
    /\ pc = "returned"
    /\ request.has_referral
    /\ Len(factors) >= 4
    /\ total_weight \in 1..99
    /\ total_weight = WeightSum(factors)
    /\ result.credit_score = ScoreOver(factors, TRUE)
    /\ result.credit_score < 900

\* the call with a referral has returned, after the same call without one
BothReturned ==
    /\ IsScoreCall
    /\ pc = "returned"
    /\ run = 2
    /\ request.has_referral
    /\ previous.status = "ok"
    /\ ~previous.summary.has_referral_bonus

\* C19, as stated: for every input the credit score with a referral is
\* strictly greater than the credit score of the same input without one.
C19_ReferralStrictlyGreater ==
    BothReturned => result.credit_score > previous.credit_score

\* C19, amended: when the call without a referral returned a credit score,
\* the call with one returns a credit score too, strictly greater than the
\* one without whenever the latter is below 900, and 900 when the latter is
\* 900.
C19_ReferralGreaterBelowCap ==
    (IsScoreCall /\ run = 2 /\ Terminal) =>
        /\ BothReturned
        /\ IF previous.credit_score < 900
           THEN result.credit_score > previous.credit_score
           ELSE result.credit_score = 900

\* a score below the cap that the referral raises, and by less than the
\* 300 points of the bonus because the cap cuts it
C19_Witness ==
    /\ BothReturned
    /\ previous.credit_score < 900
    /\ result.credit_score > previous.credit_score
    /\ result.credit_score = 900
    /\ result.credit_score - previous.credit_score < 300

\* a ScoringResult: calculate_total_score has returned
ScoreReturned == IsScoreCall /\ pc = "returned"

\* PDNRiskLevel
AllRiskLevels == {"low", "medium", "high", "critical"}

\* the factor has a remediation message and its raw score is below 50
IsWeak(f) ==
    /\ f.factor \in {"employment", "income", "pdn", "loan_history"}
    /\ f.score < 50

PdnFactors(fs) == {i \in 1..Len(fs) : fs[i].factor = "pdn"}

\* C24: every result has exactly one PDN factor, of weight 15, whatever the
\* other inputs are; the total weight is at least 15 when the score is
\* normalized, so the default of 50 for a total weight of 0 is never used.
C24_PdnFactorAlways ==
    /\ ScoreReturned =>
           /\ Cardinality(PdnFactors(result.factors)) = 1
           /\ \A i \in PdnFactors(result.factors) :
                  result.factors[i].weight = 15
           /\ total_weight >= 15
    /\ (IsScoreCall /\ pc = "normalize") => total_weight >= 15

\* a result whose only factor is the PDN factor
C24_Witness ==
    /\ ScoreReturned
    /\ request.personal_data = EmptyDict
    /\ Len(result.factors) = 1
    /\ PdnFactors(result.factors) = {1}
    /\ total_weight = 15

-----------------------------------------------------------------------------
(* Further properties of the PDN functions, under CalcSpec and Spec.       *)

IsScenarioCall == pc = "returned" /\ request.call = "analyze_pdn_scenario"

\* the alternatives of the result with the given description
Alternatives(description) ==
    {i \in 1..Len(result.alternatives) :
        result.alternatives[i].description = description}

\* the alternatives are the term extension iff the term is below 36 and the
\* reduced amount iff the amount is above the system minimum, in this order
AlternativesPresent ==
    /\ Cardinality(Alternatives("extend_term")) =
           (IF request.months < 36 THEN 1 ELSE 0)
    /\ Cardinality(Alternatives("reduce_amount")) =
           (IF request.amount > MIN_LOAN_AMOUNT THEN 1 ELSE 0)
    /\ Len(result.alternatives) =
           Cardinality(Alternatives("extend_term"))
           + Cardinality(Alternatives("reduce_amount"))

\* C26, as stated: every alternative of analyze_pdn_scenario has a PDN
\* strictly lower than the current PDN, and the reduced-amount alternative
\* an amount strictly less than the requested amount.
C26_AlternativesImprove ==
    IsScenarioCall =>
        /\ AlternativesPresent
        /\ \A i \in 1..Len(result.alternatives) :
               BigLt(result.alternatives[i].pdn, result.current_scenario.pdn)
        /\ \A i \in Alternatives("reduce_amount") :
               result.alternatives[i].amount < request.amount

\* C26, amended: every alternative of analyze_pdn_scenario has a PDN not
\* higher than the current PDN, and the reduced-amount alternative an
\* amount not greater than the requested amount.
C26_AlternativesNotWorse ==
    IsScenarioCall =>
        /\ AlternativesPresent
        /\ \A i \in 1..Len(result.alternatives) :
               BigLe(result.alternatives[i].pdn, result.current_scenario.pdn)
        /\ \A i \in Alternatives("reduce_amount") :
               result.alternatives[i].amount <= request.amount

\* both alternatives proposed, the term extension with the same PDN as the
\* current scenario and the reduced amount strictly less than the request
C26_Witness ==
    /\ IsScenarioCall
    /\ Len(result.alternatives) = 2
    /\ \E i \in Alternatives("extend_term") :
           /\ result.alternatives[i].pdn = result.current_scenario.pdn
           /\ result.alternatives[i].months = 36
           /\ BigLt(result.alternatives[i].monthly_payment,
                    result.current_scenario.monthly_payment)
    /\ \E i \in Alternatives("reduce_amount") :
           result.alternatives[i].amount < request.amount

\* auto_correct_loan_params has returned
IsCorrectionResult ==
    /\ pc = "returned"
    /\ "call" \in DOMAIN request => request.call = "loan"

\* C27: every step of the corrections of auto_correct_loan_params records
\* a real change: a term_extended step goes from the requested term to 36,
\* which is longer, and an amount_reduced step goes from the requested
\* amount to the returned amount, which is less.
C27_StepsRecordChange ==
    IsCorrectionResult =>
        \A i \in 1..Len(result.corrections) :
            LET step == result.corrections[i]
            IN  /\ step.type \in {"term_extended", "amount_reduced"}
                /\ step.type = "term_extended" =>
                       /\ step.from = request.months
                       /\ step.to = 36
                       /\ step.from < step.to
                /\ step.type = "amount_reduced" =>
                       /\ step.from = request.amount
                       /\ step.to = result.amount
                       /\ step.to < step.from

\* C28: a positive amount returned by calculate_max_loan_amount is
\* affordable: the payment of a loan of that amount at the same rate and
\* term, with the other payments, is a PDN within the target.
C28_MaxAmountAffordable ==
    (IsMaxAmountCall /\ request.months >= 1 /\ result.max_amount > 0) =>
        pdn_acceptable(PdnAt(result.max_amount, request.months),
                       request.target_pdn)

-----------------------------------------------------------------------------
(* Repeated calls, under RepeatSpec.                                       *)

\* the second of two calls with identical arguments has returned
Repeated ==
    /\ IsScoreCall
    /\ pc = "returned"
    /\ run >= 2
    /\ previous.status = "ok"

\* C22: calculate_total_score is a deterministic function of its arguments:
\* two calls with identical arguments return identical results (score,
\* category, factors, summary, recommendations), whenever they are run.
C22_Deterministic == Repeated => result = previous

-----------------------------------------------------------------------------
(* get_application_offers                                                  *)

\* the request of the owner of an existing application has been handled
OwnerAnswered ==
    /\ pc = "answered"
    /\ request.call = "get_application_offers"
    /\ request.application_id \in DOMAIN applications
    /\ applications[request.application_id].user_id = request.current_user

\* the offer at position i is the first of minimal overpayment
FirstMinimal(offers, i) ==
    /\ \A j \in DOMAIN offers :
           ~ SignedLt(offers[j].overpayment, offers[i].overpayment)
    /\ \A j \in 1..(i - 1) :
           SignedLt(offers[i].overpayment, offers[j].overpayment)

\* C23: the handler answers the owner of an application with a list of
\* offers and a best_offer_id that is null exactly when the list is empty
\* and otherwise the id of the first offer of the list, which is in
\* ascending order of rate, whose overpayment is minimal in the list
\* (or with the refusal 400 it documents for an application that is not
\* approved).
C23_BestOfferMinimal ==
    OwnerAnswered =>
        \/ response = HTTPException(400)
        \/ /\ response.status = "ok"
           /\ (response.best_offer_id = NoOffer) <=> (response.offers = <<>>)
           /\ response.offers # <<>> =>
                  \E i \in DOMAIN response.offers :
                      /\ response.offers[i].offer_id = response.best_offer_id
                      /\ FirstMinimal(response.offers, i)
           /\ \A i, j \in DOMAIN response.offers :
                  i < j => response.offers[i].annual_rate
                               <= response.offers[j].annual_rate

-----------------------------------------------------------------------------
(* apply_referral                                                          *)

\* the active users that the code belongs to
CodeOwners(table, code) ==
    {id \in DOMAIN table :
        /\ table[id].referral_code = upper(code)
        /\ "is_active" \in DOMAIN table[id]
        /\ table[id].is_active}

\* the users a referrer has referred, and those of them who joined today
ReferredBy(table, referrer) ==
    {id \in DOMAIN table : table[id].referred_by_id = referrer}

ReferredToday(table, referrer, now) ==
    {id \in ReferredBy(table, referrer) : table[id].created_at = now}

\* every guard of the call passes
GuardsPass(table, now, call) ==
    /\ call.referred_user_id \in DOMAIN table
    /\ table[call.referred_user_id].referred_by_id = NoUser
    /\ \E referrer \in CodeOwners(table, call.referral_code) :
           /\ referrer # call.referred_user_id
           /\ Cardinality(ReferredToday(table, referrer, now)) < 10
           /\ Cardinality(ReferredBy(table, referrer)) < 100

\* the table differs in the referrer of the referred user only, who is now
\* an owner of the code
ReferrerSet(before, after, call) ==
    /\ DOMAIN after = DOMAIN before
    /\ \A id \in DOMAIN before :
           id # call.referred_user_id => after[id] = before[id]
    /\ after[call.referred_user_id].referred_by_id
           \in CodeOwners(before, call.referral_code)

\* C25: a call of apply_referral changes the table only when every guard
\* passes, and then only by making an owner of the code the referrer of the
\* referred user; in every other case it returns False and leaves the table
\* as it was.  Hence no call changes a referrer that is set, and no user
\* becomes their own referrer.
C25_ReferralGuards ==
    [][/\ users' # users =>
              /\ GuardsPass(users, today, request')
              /\ ReferrerSet(users, users', request')
              /\ response' = Returned(TRUE)
       /\ ~ GuardsPass(users, today, request') =>
              /\ response' = Returned(FALSE)
              /\ users' = users
       /\ \A id \in DOMAIN users :
              users[id].referred_by_id # NoUser =>
                  users'[id].referred_by_id = users[id].referred_by_id
       /\ \A id \in DOMAIN users' : users'[id].referred_by_id # id]_vars

\* the users who are referred and are referrers: a cycle consists of these
Inner(table) ==
    {id \in {table[w].referred_by_id : w \in DOMAIN table} \ {NoUser} :
        table[id].referred_by_id # NoUser}

\* following referred_by_id from cur for at most steps links reaches id
RECURSIVE Reaches(_, _, _, _)
Reaches(table, cur, id, steps) ==
    IF steps = 0 \/ cur = NoUser THEN FALSE
    ELSE LET next == table[cur].referred_by_id
         IN  next = id \/ Reaches(table, next, id, steps - 1)

-----------------------------------------------------------------------------
(* verify_code                                                             *)

\* worker w returns False in this step
ReturnsFalse(w) ==
    /\ verifier[w].pc = "got"
    /\ verifier'[w].pc = "idle"
    /\ verifier'[w].result = Returned(FALSE)

\* C30: every code that send_verification_code stored has made at most one
\* call of verify_code return True, however the calls of the workers
\* interleave, and a call that returns False leaves the stored code as it
\* was.
C30_CodeAuthenticatesOnce ==
    /\ [](\A n \in DOMAIN accepted : accepted[n] <= 1)
    /\ [][\A w \in DOMAIN verifier : ReturnsFalse(w) => otp' = otp]_vars

=============================================================================
